---- MODULE Spec2Model ----
(***************************************************************************)
(* cash_track: the role-based access control of the movement and user API  *)
(* routes, modelled as a state machine over the two persisted tables.      *)
(*                                                                         *)
(* The persistence collaborator (Prisma) is the pair of tables `users` and *)
(* `movements`.  Every API handler is one atomic action: it draws the      *)
(* request (session, route id, query, body) with \E, runs the handler's    *)
(* checks in the order of the source, changes the tables and leaves the    *)
(* request together with its response in `last`.  `pre` keeps the tables   *)
(* as they were when the handler started.  Reply ends the request.         *)
(***************************************************************************)
EXTENDS Integers, Sequences, FiniteSets, TLC

VARIABLES
    users,      \* the User table: id -> row (role "NONE" = no such row)
    movements,  \* the Movement table: id -> row (present = FALSE: no such row)
    last,       \* the request being answered and its response, or Idle
    pre,        \* the tables when the handler of `last` started
    demoted,    \* users whose stored role was changed from ADMIN to USER
    flight,     \* the requests handled concurrently: name -> its handler's state
    screen      \* the state of the client components

vars == <<users, movements, last, pre, demoted, flight, screen>>

(***************************************************************************)
(* Bounds of the model.                                                    *)
(***************************************************************************)
MaxUsers == 2
MaxMovements == 2
MaxCsvRows == 2
MaxSubmits == 2

UserIds == 1..MaxUsers
MovementIds == 1..MaxMovements

(***************************************************************************)
(* Program constants.                                                      *)
(***************************************************************************)
MaxConceptLength == 200
MaxAmount == 999999999
MaxPageSize == 100
DefaultPage == 1
DefaultLimit == 10

Roles == {"USER", "ADMIN"}

(***************************************************************************)
(* JSON values of a request body or query: a field is absent, a string or  *)
(* a number.  A string is a sequence of pieces of text: a concept is spelt *)
(* character by character, a date, type, role or name is one piece.        *)
(* A number is its integer part n (its floor) and the f thousandths above  *)
(* it: 1000 is [n |-> 1000, f |-> 0] and 0.005 is [n |-> 0, f |-> 5].      *)
(***************************************************************************)
Absent == [k |-> "absent", s |-> <<>>, n |-> 0, f |-> 0]
Str(chars) == [k |-> "string", s |-> chars, n |-> 0, f |-> 0]
Num(n, f) == [k |-> "number", s |-> <<>>, n |-> n, f |-> f]
Units(n) == Num(n, 0)
Text(piece) == Str(<<piece>>)

Chars(n, c) == [i \in 1..n |-> c]

IsSpace(c) == c \in {" ", "\t", "\n"}

RECURSIVE TrimLeft(_)
TrimLeft(s) ==
    IF s = <<>> THEN <<>>
    ELSE IF IsSpace(Head(s)) THEN TrimLeft(Tail(s)) ELSE s

RECURSIVE TrimRight(_)
TrimRight(s) ==
    IF s = <<>> THEN <<>>
    ELSE IF IsSpace(s[Len(s)]) THEN TrimRight(SubSeq(s, 1, Len(s) - 1)) ELSE s

\* String.prototype.trim
Trim(s) == TrimRight(TrimLeft(s))

\* /[<>]/.test(val)
HasAngle(s) == \E i \in 1..Len(s) : s[i] \in {"<", ">"}

Digits == <<"0", "1", "2", "3", "4", "5", "6", "7", "8", "9">>
IsDigit(c) == \E d \in 1..Len(Digits) : Digits[d] = c
DigitValue(c) == (CHOOSE d \in 1..Len(Digits) : Digits[d] = c) - 1

RECURSIVE DecimalValue(_)
DecimalValue(s) ==
    IF s = <<>> THEN 0
    ELSE DecimalValue(SubSeq(s, 1, Len(s) - 1)) * 10 + DigitValue(s[Len(s)])

\* Number(value) of a string of the request: NaN or the value.  The strings
\* of the model are blank (0), an optional sign and decimal digits (an
\* integer), or no number at all (NaN).
NaN == [nan |-> TRUE, n |-> 0, f |-> 0]
Finite(n, f) == [nan |-> FALSE, n |-> n, f |-> f]
NumberOfString(s) ==
    LET t == Trim(s)
        neg == t # <<>> /\ Head(t) = "-"
        body == IF neg THEN Tail(t) ELSE t
    IN  IF t = <<>> THEN Finite(0, 0)
        ELSE IF body # <<>> /\ \A i \in 1..Len(body) : IsDigit(body[i])
             THEN Finite((IF neg THEN 0 - 1 ELSE 1) * DecimalValue(body), 0)
             ELSE NaN

\* Date.parse(val) of the date strings of the model: the day as yyyymmdd, or
\* NaN.  The first two are full ISO-8601 date-times, the third is a bare
\* ISO date (parsed by Date.parse, no date-time), anything else is no date.
IsoJan == "2025-01-01T00:00:00.000Z"
IsoFeb == "2025-02-01T00:00:00.000Z"
DateOnly == "2025-01-15"
NotADate == "not-a-date"
DateParse(s) ==
    CASE s = <<IsoJan>> -> Finite(20250101, 0)
      [] s = <<IsoFeb>> -> Finite(20250201, 0)
      [] s = <<DateOnly>> -> Finite(20250115, 0)
      [] OTHER -> NaN

\* z.string().datetime(): an ISO-8601 date-time with the Z suffix
IsIsoDateTime(s) == s \in {<<IsoJan>>, <<IsoFeb>>}

(***************************************************************************)
(* Rows, sessions, requests and responses.                                 *)
(***************************************************************************)
NoUser == [role |-> "NONE", name |-> Absent]
NoMovement ==
    [present |-> FALSE, userId |-> 0, concept |-> <<>>,
     amount |-> [n |-> 0, f |-> 0], date |-> 0, type |-> ""]

\* req.auth: no session, or the session's user id and the role it carries
NoAuth == [id |-> 0, role |-> "NONE"]
Sessions == {NoAuth} \cup [id : UserIds, role : Roles]

NoBody ==
    [concept |-> Absent, amount |-> Absent, date |-> Absent, type |-> Absent,
     userId |-> Absent, name |-> Absent, role |-> Absent]

NoPagination == [page |-> 0, limit |-> 0, total |-> 0, totalPages |-> 0]
NoNumber == [neg |-> FALSE, bits |-> <<>>, exp |-> 0]
NoReport ==
    [totalIncome |-> NoNumber, totalExpense |-> NoNumber, balance |-> NoNumber,
     monthly |-> <<>>, totalMovements |-> 0]

Idle ==
    [op |-> "idle", auth |-> NoAuth, dbDown |-> FALSE, id |-> 0,
     body |-> NoBody, page |-> Absent, limit |-> Absent,
     status |-> 0, code |-> "", calls |-> {}, scope |-> "none",
     data |-> <<>>, pagination |-> NoPagination, rows |-> <<>>,
     report |-> NoReport, zone |-> "UTC"]

Tables == [users |-> users, movements |-> movements]

\* a request handled concurrently with others: `at` is the await its handler
\* has reached, the other fields are the handler's local variables and its
\* response
Requests == {"first", "second"}
Sleeping ==
    [method |-> "none", at |-> "waiting", auth |-> NoAuth, id |-> 0,
     body |-> NoBody, page |-> Absent, limit |-> Absent,
     movement |-> NoMovement, user |-> NoUser, adminCount |-> 0,
     counted |-> FALSE, total |-> 0, paged |-> FALSE, data |-> <<>>,
     thrown |-> "nothing", status |-> 0, code |-> ""]
NoFlight == [r \in Requests |-> Sleeping]

\* the client components: the movement form modal with the calls its
\* handleSubmit has made to its props, and a RoleGuard with its props, the
\* value of useCurrentUser() and what it renders
ClosedModal ==
    [open |-> FALSE, onCreated |-> FALSE, isSubmitting |-> FALSE,
     phase |-> "idle", outcome |-> "none", closed |-> FALSE,
     notified |-> FALSE, toast |-> "none", submits |-> 0]
Unmounted ==
    [revision |-> "none", isLoading |-> TRUE, error |-> FALSE, user |-> "NONE",
     restricted |-> FALSE, allowedRoles |-> {}, fallback |-> FALSE,
     rendered |-> "nothing", redirected |-> FALSE]
NoScreen == [modal |-> ClosedModal, guard |-> Unmounted]

\* res.status(status).json({code}) after the persistence calls `calls`
Respond(req, status, code, calls) ==
    /\ last' = [req EXCEPT !.status = status, !.code = code, !.calls = calls]
    /\ pre' = Tables
    /\ UNCHANGED <<flight, screen>>

(***************************************************************************)
(* Payload validation.                                                     *)
(***************************************************************************)
MovementTypes == {<<"INCOME">>, <<"EXPENSE">>}

\* concept: z.string().min(1).max(200).transform(trim).refine(no < or >)
ConceptAccepted(v) ==
    /\ v.k = "string"
    /\ Len(v.s) >= 1
    /\ Len(v.s) <= MaxConceptLength
    /\ ~HasAngle(Trim(v.s))

\* amount: z.number().positive().max(999999999).refine(isSafeInteger(val*100))
AmountAcceptedNoMax(v) ==
    /\ v.k = "number"
    /\ v.n > 0 \/ (v.n = 0 /\ v.f > 0)
    /\ v.f % 10 = 0

AmountAccepted(v) ==
    /\ v.k = "number"
    /\ v.n > 0 \/ (v.n = 0 /\ v.f > 0)
    /\ v.n < MaxAmount \/ (v.n = MaxAmount /\ v.f = 0)
    /\ v.f % 10 = 0

\* date of createMovementSchema: z.string().refine(!isNaN(Date.parse(val)))
CreateDateAccepted(v) == v.k = "string" /\ ~DateParse(v.s).nan

\* date of updateMovementSchema: z.string().datetime()
UpdateDateAccepted(v) == v.k = "string" /\ IsIsoDateTime(v.s)

\* type: z.enum(['INCOME', 'EXPENSE'])
TypeAccepted(v) == v.k = "string" /\ v.s \in MovementTypes

\* createMovementSchema.safeParse(body).success; unknown keys are stripped
createMovementSchema(body) ==
    /\ ConceptAccepted(body.concept)
    /\ AmountAccepted(body.amount)
    /\ CreateDateAccepted(body.date)
    /\ TypeAccepted(body.type)

\* updateMovementSchema.safeParse(body).success: every field optional, and
\* the parsed object (unknown keys stripped) has at least one key
updateMovementSchemaAllOptional(body) ==
    /\ body.concept.k = "absent" \/ ConceptAccepted(body.concept)
    /\ body.amount.k = "absent" \/ AmountAccepted(body.amount)
    /\ body.date.k = "absent" \/ UpdateDateAccepted(body.date)
    /\ body.type.k = "absent" \/ TypeAccepted(body.type)

updateMovementSchema(body) ==
    /\ body.concept.k = "absent" \/ ConceptAccepted(body.concept)
    /\ body.amount.k = "absent" \/ AmountAccepted(body.amount)
    /\ body.date.k = "absent" \/ UpdateDateAccepted(body.date)
    /\ body.type.k = "absent" \/ TypeAccepted(body.type)
    /\ \E f \in {"concept", "amount", "date", "type"} : body[f].k # "absent"

\* parseNumber of pages/api/movements/index.ts: a finite number, or a string
\* that Number() turns into one
parseNumber(v) ==
    CASE v.k = "number" -> Finite(v.n, v.f)
      [] v.k = "string" -> NumberOfString(v.s)
      [] OTHER -> NaN

\* parseDate of pages/api/movements/index.ts
parseDate(v) == IF v.k = "string" THEN DateParse(v.s) ELSE NaN

(***************************************************************************)
(* Authentication and role wrappers.                                       *)
(***************************************************************************)
\* withAuth: the handler runs only with a session
withAuth(auth) == auth # NoAuth

\* withRole: the role stored for the session's user, the session's role when
\* no row is found or when the lookup throws
effectiveRole(auth, dbDown) ==
    IF dbDown THEN auth.role
    ELSE IF users[auth.id].role # "NONE" THEN users[auth.id].role
    ELSE auth.role

withRoleOfSession(allowedRoles, auth, dbDown) == auth.role \in allowedRoles

withRole(allowedRoles, auth, dbDown) ==
    effectiveRole(auth, dbDown) \in allowedRoles

\* movements/[id] handler: isAdmin from the stored role, from the session's
\* role when the lookup throws
isAdminFromSession(auth, dbDown) == auth.role = "ADMIN"

isAdminStoredOnly(auth, dbDown) == users[auth.id].role = "ADMIN"

isAdmin(auth, dbDown) ==
    IF dbDown THEN auth.role = "ADMIN" ELSE users[auth.id].role = "ADMIN"

isOwner(auth, movement) == movement.userId = auth.id

(***************************************************************************)
(* Movement routes.                                                        *)
(***************************************************************************)
\* the data object handlePatch passes to prisma.movement.update
PatchDataWithOwner(row, body) ==
    [row EXCEPT
        !.concept = IF body.concept.k = "absent" THEN @ ELSE Trim(body.concept.s),
        !.amount = IF body.amount.k = "absent" THEN @
                   ELSE [n |-> body.amount.n, f |-> body.amount.f],
        !.date = IF body.date.k = "absent" THEN @ ELSE DateParse(body.date.s).n,
        !.type = IF body.type.k = "absent" THEN @ ELSE body.type.s[1],
        !.userId = IF body.userId.k = "number" THEN body.userId.n ELSE @]

PatchData(row, body) ==
    [row EXCEPT
        !.concept = IF body.concept.k = "absent" THEN @ ELSE Trim(body.concept.s),
        !.amount = IF body.amount.k = "absent" THEN @
                   ELSE [n |-> body.amount.n, f |-> body.amount.f],
        !.date = IF body.date.k = "absent" THEN @ ELSE DateParse(body.date.s).n,
        !.type = IF body.type.k = "absent" THEN @ ELSE body.type.s[1]]

\* handlePatch (movements/[id])
handlePatchWriteFirst(req, calls) ==
    /\ movements' = [movements EXCEPT ![req.id] = PatchData(@, req.body)]
    /\ Respond(req, IF updateMovementSchema(req.body) THEN 200 ELSE 400,
               IF updateMovementSchema(req.body) THEN "" ELSE "VALIDATION",
               calls \cup {"movement.update"})
    /\ UNCHANGED <<users, demoted>>

handlePatch(req, calls) ==
    IF ~updateMovementSchema(req.body)
    THEN /\ Respond(req, 400, "VALIDATION", calls)
         /\ UNCHANGED <<users, movements, demoted>>
    ELSE /\ movements' =
               [movements EXCEPT ![req.id] = PatchData(@, req.body)]
         /\ Respond(req, 200, "", calls \cup {"movement.update"})
         /\ UNCHANGED <<users, demoted>>

\* handleDelete (movements/[id])
handleDeleteOfOwner(req, calls) ==
    /\ movements' =
          [m \in MovementIds |->
              IF movements[m].userId = movements[req.id].userId
              THEN NoMovement ELSE movements[m]]
    /\ Respond(req, 204, "", calls \cup {"movement.delete"})
    /\ UNCHANGED <<users, demoted>>

handleDelete(req, calls) ==
    /\ movements' = [movements EXCEPT ![req.id] = NoMovement]
    /\ Respond(req, 204, "", calls \cup {"movement.delete"})
    /\ UNCHANGED <<users, demoted>>

\* the first check of the movements/[id] handler that a request fails:
\* session (withAuth), route id, existence, ownership; "" when it fails none
ByIdDenialOwnershipFirst(req) ==
    IF ~withAuth(req.auth) THEN "401"
    ELSE IF req.id = 0 THEN "400"
    ELSE IF ~isAdmin(req.auth, req.dbDown)
            /\ ~isOwner(req.auth, movements[req.id]) THEN "403"
    ELSE IF ~movements[req.id].present THEN "404"
    ELSE ""

ByIdDenial(req) ==
    IF ~withAuth(req.auth) THEN "401"
    ELSE IF req.id = 0 THEN "400"
    ELSE IF ~movements[req.id].present THEN "404"
    ELSE IF ~isAdmin(req.auth, req.dbDown)
            /\ ~isOwner(req.auth, movements[req.id]) THEN "403"
    ELSE ""

\* handler of movements/[id], wrapped by withAuth
MovementByIdHandler(req) ==
    LET denial == ByIdDenial(req) IN
    IF denial = "401"
    THEN /\ Respond(req, 401, "UNAUTHORIZED", {})
         /\ UNCHANGED <<users, movements, demoted>>
    ELSE IF denial = "400"
    THEN /\ Respond(req, 400, "INVALID_ID", {})
         /\ UNCHANGED <<users, movements, demoted>>
    ELSE IF denial = "404"
    THEN /\ Respond(req, 404, "", {"movement.findUnique"})
         /\ UNCHANGED <<users, movements, demoted>>
    ELSE IF denial = "403"
    THEN /\ Respond(req, 403, "NOT_OWNER",
                    {"movement.findUnique", "user.findUnique"})
         /\ UNCHANGED <<users, movements, demoted>>
    ELSE IF req.op = "PATCH /movements/id"
    THEN handlePatch(req, {"movement.findUnique", "user.findUnique"})
    ELSE handleDelete(req, {"movement.findUnique", "user.findUnique"})

\* the lookup of the stored role can only throw in a request with a session
Faults(auth) == IF auth = NoAuth THEN {FALSE} ELSE BOOLEAN

PatchMovementOver(bodies) ==
    /\ last = Idle
    /\ \E auth \in Sessions, id \in 0..MaxMovements, body \in bodies :
         \E dbDown \in Faults(auth) :
            MovementByIdHandler(
                [Idle EXCEPT !.op = "PATCH /movements/id", !.auth = auth,
                             !.dbDown = dbDown, !.id = id, !.body = body])

DeleteMovement ==
    /\ last = Idle
    /\ \E auth \in Sessions, id \in 0..MaxMovements :
         \E dbDown \in Faults(auth) :
            MovementByIdHandler(
                [Idle EXCEPT !.op = "DELETE /movements/id", !.auth = auth,
                             !.dbDown = dbDown, !.id = id])

\* the row postHandler passes to prisma.movement.create
CreateDataFromBody(auth, body) ==
    [present |-> TRUE,
     userId |-> IF body.userId.k = "number" THEN body.userId.n ELSE auth.id,
     concept |-> Trim(body.concept.s),
     amount |-> [n |-> body.amount.n, f |-> body.amount.f],
     date |-> DateParse(body.date.s).n,
     type |-> body.type.s[1]]

CreateData(auth, body) ==
    [present |-> TRUE, userId |-> auth.id, concept |-> Trim(body.concept.s),
     amount |-> [n |-> body.amount.n, f |-> body.amount.f],
     date |-> DateParse(body.date.s).n,
     type |-> body.type.s[1]]

\* postHandler (movements), reached through withRole('ADMIN', postHandler)
postHandler(req, calls) ==
    IF ~createMovementSchema(req.body)
    THEN /\ Respond(req, 400, "VALIDATION", calls)
         /\ UNCHANGED <<users, movements, demoted>>
    ELSE /\ \E id \in MovementIds :
              /\ ~movements[id].present
              /\ movements' =
                    [movements EXCEPT ![id] = CreateData(req.auth, req.body)]
              /\ Respond([req EXCEPT !.id = id], 201, "",
                         calls \cup {"movement.create"})
         /\ UNCHANGED <<users, demoted>>

\* handler of movements (POST branch), wrapped by withAuth
PostMovementHandler(req) ==
    IF ~withAuth(req.auth)
    THEN /\ Respond(req, 401, "UNAUTHORIZED", {})
         /\ UNCHANGED <<users, movements, demoted>>
    ELSE IF ~withRole({"ADMIN"}, req.auth, req.dbDown)
    THEN /\ Respond(req, 403, "FORBIDDEN", {"user.findUnique"})
         /\ UNCHANGED <<users, movements, demoted>>
    ELSE postHandler(req, {"user.findUnique"})

PostMovementOver(bodies) ==
    /\ last = Idle
    /\ \E auth \in Sessions, body \in bodies :
         \E dbDown \in Faults(auth) :
            PostMovementHandler(
                [Idle EXCEPT !.op = "POST /movements", !.auth = auth,
                             !.dbDown = dbDown, !.body = body])

\* handler of pages/api/movements/index.ts (POST branch), wrapped by withAuth:
\* the concept is checked before the role, the role is the session's
PagesPostMovementHandler(req) ==
    LET body == req.body
        numericAmount == parseNumber(body.amount)
        parsedDate == parseDate(body.date)
    IN  IF ~withAuth(req.auth)
        THEN /\ Respond(req, 401, "UNAUTHORIZED", {})
             /\ UNCHANGED <<users, movements, demoted>>
        ELSE IF body.concept.k # "string" \/ Len(Trim(body.concept.s)) = 0
        THEN /\ Respond(req, 400, "CONCEPT", {})
             /\ UNCHANGED <<users, movements, demoted>>
        ELSE IF req.auth.role # "ADMIN"
        THEN /\ Respond(req, 403, "FORBIDDEN", {})
             /\ UNCHANGED <<users, movements, demoted>>
        ELSE IF numericAmount.nan \/ numericAmount.n < 0
                \/ (numericAmount.n = 0 /\ numericAmount.f = 0)
        THEN /\ Respond(req, 400, "AMOUNT", {})
             /\ UNCHANGED <<users, movements, demoted>>
        ELSE IF parsedDate.nan
        THEN /\ Respond(req, 400, "DATE", {})
             /\ UNCHANGED <<users, movements, demoted>>
        ELSE IF ~TypeAccepted(body.type)
        THEN /\ Respond(req, 400, "TYPE", {})
             /\ UNCHANGED <<users, movements, demoted>>
        ELSE /\ \E id \in MovementIds :
                  /\ ~movements[id].present
                  /\ movements' =
                        [movements EXCEPT ![id] =
                            [present |-> TRUE, userId |-> req.auth.id,
                             concept |-> Trim(body.concept.s),
                             amount |-> [n |-> numericAmount.n,
                                         f |-> numericAmount.f],
                             date |-> parsedDate.n,
                             type |-> body.type.s[1]]]
                  /\ Respond([req EXCEPT !.id = id], 201, "",
                             {"movement.create"})
             /\ UNCHANGED <<users, demoted>>

PagesPostMovementOver(bodies) ==
    /\ last = Idle
    /\ \E auth \in Sessions, body \in bodies :
         PagesPostMovementHandler(
            [Idle EXCEPT !.op = "POST /movements (pages)", !.auth = auth,
                         !.body = body])

\* the response has been sent; the next request starts from the tables
Reply ==
    /\ last # Idle
    /\ last' = Idle
    /\ pre' = Tables
    /\ UNCHANGED <<users, movements, demoted, flight, screen>>

(***************************************************************************)
(* The movement-mutation specification: Create (both routes), Update and   *)
(* Delete of movements over every table of MaxUsers users.                 *)
(***************************************************************************)
Salary ==
    [NoBody EXCEPT !.concept = Str(<<"a">>), !.amount = Units(1000),
                   !.date = Text(IsoJan), !.type = Text("INCOME")]
\* a valid body that also carries a userId key and an untrimmed concept
Spoofed ==
    [Salary EXCEPT !.concept = Str(<<" ", "b", " ">>), !.userId = Units(1)]
\* an invalid body: the concept is empty and the amount is 0
Invalid == [Salary EXCEPT !.concept = Str(<<>>), !.amount = Units(0)]
\* a partial body
OnlyConcept == [NoBody EXCEPT !.concept = Str(<<"b">>)]

MovementBodies == {Salary, Spoofed, Invalid, OnlyConcept, NoBody}

\* the rows a table of the specification can start with
InitialUsers == [UserIds -> {NoUser} \cup [role : Roles, name : {Text("ann")}]]
InitialMovement(owner) ==
    [present |-> TRUE, userId |-> owner, concept |-> <<"a">>,
     amount |-> [n |-> 1000, f |-> 0], date |-> 20250101, type |-> "INCOME"]
InitialMovements ==
    [MovementIds -> {NoMovement} \cup {InitialMovement(u) : u \in UserIds}]

Init ==
    /\ users \in InitialUsers
    /\ movements \in InitialMovements
    /\ last = Idle
    /\ pre = Tables
    /\ demoted = {}
    /\ flight = NoFlight
    /\ screen = NoScreen

PatchMovement == PatchMovementOver(MovementBodies)
PostMovement == PostMovementOver(MovementBodies)
PagesPostMovement == PagesPostMovementOver(MovementBodies)

Next ==
    \/ PostMovement
    \/ PagesPostMovement
    \/ PatchMovement
    \/ DeleteMovement
    \/ Reply

Spec == Init /\ [][Next]_vars

(***************************************************************************)
(* Movement listing.                                                       *)
(***************************************************************************)
RECURSIVE Orderings(_)
Orderings(S) ==
    IF S = {} THEN {<<>>}
    ELSE UNION {{<<x>> \o p : p \in Orderings(S \ {x})} : x \in S}

Reverse(seq) == [i \in 1..Len(seq) |-> seq[Len(seq) + 1 - i]]

Min(a, b) == IF a < b THEN a ELSE b
Max(a, b) == IF a > b THEN a ELSE b

\* Math.ceil(total / pageSize) for total >= 0 and pageSize # 0
CeilDiv(total, pageSize) ==
    IF pageSize > 0 THEN (total + pageSize - 1) \div pageSize
    ELSE 0 - (total \div (0 - pageSize))

\* Number(value) || fallback of a query parameter (absent: the default text)
NumberOr(v, fallback) ==
    IF v.k = "absent" THEN fallback
    ELSE LET x == NumberOfString(v.s)
         IN  IF x.nan \/ x.n = 0 THEN fallback ELSE x.n

\* where: undefined for an ADMIN session, {userId} otherwise
ScopedToNobody(admin, auth) == {m \in MovementIds : movements[m].present}

Scoped(admin, auth) ==
    {m \in MovementIds :
        movements[m].present /\ (admin \/ movements[m].userId = auth.id)}

\* prisma.movement.findMany({where, orderBy: {date: 'desc'}, skip, take}):
\* the rows of the scope in an order of descending date (rows of the same
\* date come in any order), cut to the page.  A negative take counts from
\* the end of the list.
OrderedByDateDesc(scope) ==
    {p \in Orderings(scope) :
        \A i \in 1..(Len(p) - 1) :
            movements[p[i]].date >= movements[p[i + 1]].date}

PageOf(rows, skip, take) ==
    IF take >= 0
    THEN SubSeq(rows, skip + 1, Min(Len(rows), skip + take))
    ELSE Reverse(SubSeq(Reverse(rows), skip + 1,
                        Min(Len(rows), skip - take)))

findMany(scope, skip, take) ==
    {PageOf(rows, skip, take) : rows \in OrderedByDateDesc(scope)}

\* getHandler (movements), wrapped by withAuth: page and limit are clamped
ClampedPage(v) == Max(1, NumberOr(v, DefaultPage))

ClampedLimit(v) == Min(MaxPageSize, Max(1, NumberOr(v, DefaultLimit)))

GetMovementsHandler(req) ==
    LET pageNumber == ClampedPage(req.page)
        pageSize == ClampedLimit(req.limit)
        skip == (pageNumber - 1) * pageSize
        admin == req.auth.role = "ADMIN"
        scope == Scoped(admin, req.auth)
        total == Cardinality(scope)
    IN  IF ~withAuth(req.auth)
        THEN /\ Respond(req, 401, "UNAUTHORIZED", {})
             /\ UNCHANGED <<users, movements, demoted>>
        ELSE /\ \E rows \in findMany(scope, skip, pageSize) :
                  Respond([req EXCEPT
                              !.scope = IF admin THEN "all" ELSE "own",
                              !.data = rows,
                              !.pagination =
                                  [page |-> pageNumber, limit |-> pageSize,
                                   total |-> total,
                                   totalPages |-> CeilDiv(total, pageSize)]],
                          200, "", {"movement.count", "movement.findMany"})
             /\ UNCHANGED <<users, movements, demoted>>

GetMovementsOver(queries) ==
    /\ last = Idle
    /\ \E auth \in Sessions, query \in queries :
         GetMovementsHandler(
            [Idle EXCEPT !.op = "GET /movements", !.auth = auth,
                         !.page = query.page, !.limit = query.limit])

\* handler of pages/api/movements/index.ts (GET branch), wrapped by withAuth:
\* page and limit are used as given; prisma rejects a negative skip, and the
\* handler does not catch it
PagesGetMovementsHandler(req) ==
    LET pageNumber == NumberOr(req.page, DefaultPage)
        pageSize == NumberOr(req.limit, DefaultLimit)
        skip == (pageNumber - 1) * pageSize
        admin == req.auth.role = "ADMIN"
        scope == Scoped(admin, req.auth)
        total == Cardinality(scope)
        asked == [req EXCEPT
                     !.scope = IF admin THEN "all" ELSE "own",
                     !.pagination =
                         [page |-> pageNumber, limit |-> pageSize,
                          total |-> total,
                          totalPages |-> CeilDiv(total, pageSize)]]
    IN  IF ~withAuth(req.auth)
        THEN /\ Respond(req, 401, "UNAUTHORIZED", {})
             /\ UNCHANGED <<users, movements, demoted>>
        ELSE IF skip < 0
        THEN /\ Respond(asked, 500, "UNCAUGHT",
                        {"movement.count", "movement.findMany"})
             /\ UNCHANGED <<users, movements, demoted>>
        ELSE /\ \E rows \in findMany(scope, skip, pageSize) :
                  Respond([asked EXCEPT !.data = rows], 200, "",
                          {"movement.count", "movement.findMany"})
             /\ UNCHANGED <<users, movements, demoted>>

PagesGetMovementsOver(queries) ==
    /\ last = Idle
    /\ \E auth \in Sessions, query \in queries :
         PagesGetMovementsHandler(
            [Idle EXCEPT !.op = "GET /movements (pages)", !.auth = auth,
                         !.page = query.page, !.limit = query.limit])

(***************************************************************************)
(* User routes, all wrapped by withRole('ADMIN', handler).                 *)
(***************************************************************************)
\* the users of a set of ids, latest first (ids stand for creation order)
RECURSIVE Descending(_)
Descending(S) ==
    IF S = {} THEN <<>>
    ELSE LET top == CHOOSE x \in S : \A y \in S : y <= x
         IN  <<top>> \o Descending(S \ {top})

Admins == {u \in UserIds : users[u].role = "ADMIN"}

\* handler of users (GET)
UsersListHandler(req) ==
    IF ~withAuth(req.auth)
    THEN /\ Respond(req, 401, "UNAUTHORIZED", {})
         /\ UNCHANGED <<users, movements, demoted>>
    ELSE IF ~withRole({"ADMIN"}, req.auth, req.dbDown)
    THEN /\ Respond(req, 403, "FORBIDDEN", {"user.findUnique"})
         /\ UNCHANGED <<users, movements, demoted>>
    ELSE /\ Respond([req EXCEPT
                        !.data = Descending({u \in UserIds :
                                                users[u].role # "NONE"})],
                    200, "", {"user.findUnique", "user.findMany"})
         /\ UNCHANGED <<users, movements, demoted>>

UsersList ==
    /\ last = Idle
    /\ \E auth \in Sessions :
         \E dbDown \in Faults(auth) :
            UsersListHandler(
                [Idle EXCEPT !.op = "GET /users", !.auth = auth,
                             !.dbDown = dbDown])

\* the data object the PATCH branch passes to prisma.user.update
UserPatchHasData(body) == body.name.k = "string" \/ body.role.k # "absent"

UserPatchDataNameOnly(row, body) ==
    [row EXCEPT
        !.name = IF body.name.k = "string" THEN Str(Trim(body.name.s)) ELSE @]

UserPatchData(row, body) ==
    [row EXCEPT
        !.name = IF body.name.k = "string" THEN Str(Trim(body.name.s)) ELSE @,
        !.role = IF body.role.k # "absent" THEN body.role.s[1] ELSE @]

\* role === 'USER' || role === 'ADMIN'
UserRoleAccepted(v) == v.k = "string" /\ v.s \in {<<"USER">>, <<"ADMIN">>}

\* the history of demotions kept beside the User table
DemotedAfterPatch(id, body) ==
    IF body.role.k = "absent" THEN demoted
    ELSE IF body.role.s = <<"ADMIN">> THEN demoted \ {id}
    ELSE IF users[id].role = "ADMIN" THEN demoted \cup {id}
    ELSE demoted

\* handler of users/[id] (PATCH branch)
UserPatchHandler(req) ==
    LET body == req.body IN
    IF ~withAuth(req.auth)
    THEN /\ Respond(req, 401, "UNAUTHORIZED", {})
         /\ UNCHANGED <<users, movements, demoted>>
    ELSE IF ~withRole({"ADMIN"}, req.auth, req.dbDown)
    THEN /\ Respond(req, 403, "FORBIDDEN", {"user.findUnique"})
         /\ UNCHANGED <<users, movements, demoted>>
    ELSE IF req.id = 0
    THEN /\ Respond(req, 400, "INVALID_ID", {"user.findUnique"})
         /\ UNCHANGED <<users, movements, demoted>>
    ELSE IF body.role.k # "absent" /\ ~UserRoleAccepted(body.role)
    THEN /\ Respond(req, 400, "INVALID_ROLE", {"user.findUnique"})
         /\ UNCHANGED <<users, movements, demoted>>
    ELSE IF ~UserPatchHasData(body)
    THEN /\ Respond(req, 400, "NO_FIELDS", {"user.findUnique"})
         /\ UNCHANGED <<users, movements, demoted>>
    ELSE IF users[req.id].role = "NONE"
    THEN /\ Respond(req, 404, "", {"user.findUnique", "user.update"})
         /\ UNCHANGED <<users, movements, demoted>>
    ELSE /\ users' = [users EXCEPT ![req.id] = UserPatchData(@, body)]
         /\ demoted' = DemotedAfterPatch(req.id, body)
         /\ Respond(req, 200, "", {"user.findUnique", "user.update"})
         /\ UNCHANGED movements

UserPatchOver(bodies) ==
    /\ last = Idle
    /\ \E auth \in Sessions, id \in 0..MaxUsers, body \in bodies :
         \E dbDown \in Faults(auth) :
            UserPatchHandler(
                [Idle EXCEPT !.op = "PATCH /users/id", !.auth = auth,
                             !.dbDown = dbDown, !.id = id, !.body = body])

\* adminCount <= 1
LastAdminOfTwo(adminCount) == adminCount <= 2


LastAdmin(adminCount) == adminCount <= 1

\* handler of users/[id] (DELETE branch)
UserDeleteHandler(req) ==
    IF ~withAuth(req.auth)
    THEN /\ Respond(req, 401, "UNAUTHORIZED", {})
         /\ UNCHANGED <<users, movements, demoted>>
    ELSE IF ~withRole({"ADMIN"}, req.auth, req.dbDown)
    THEN /\ Respond(req, 403, "FORBIDDEN", {"user.findUnique"})
         /\ UNCHANGED <<users, movements, demoted>>
    ELSE IF req.id = 0
    THEN /\ Respond(req, 400, "INVALID_ID", {"user.findUnique"})
         /\ UNCHANGED <<users, movements, demoted>>
    ELSE IF users[req.id].role = "NONE"
    THEN /\ Respond(req, 404, "", {"user.findUnique"})
         /\ UNCHANGED <<users, movements, demoted>>
    ELSE IF users[req.id].role = "ADMIN" /\ LastAdmin(Cardinality(Admins))
    THEN /\ Respond(req, 400, "LAST_ADMIN", {"user.findUnique", "user.count"})
         /\ UNCHANGED <<users, movements, demoted>>
    ELSE /\ users' = [users EXCEPT ![req.id] = NoUser]
         /\ demoted' = demoted \ {req.id}
         /\ Respond(req, 204, "",
                    IF users[req.id].role = "ADMIN"
                    THEN {"user.findUnique", "user.count", "user.delete"}
                    ELSE {"user.findUnique", "user.delete"})
         /\ UNCHANGED movements

UserDelete ==
    /\ last = Idle
    /\ \E auth \in Sessions, id \in 0..MaxUsers :
         \E dbDown \in Faults(auth) :
            UserDeleteHandler(
                [Idle EXCEPT !.op = "DELETE /users/id", !.auth = auth,
                             !.dbDown = dbDown, !.id = id])

(***************************************************************************)
(* The listing specification: both list routes over tables of dated        *)
(* movements, while user roles are changed through PATCH /users/id.        *)
(***************************************************************************)
Query(page, limit) == [page |-> page, limit |-> limit]
Queries ==
    {Query(Absent, Absent),
     Query(Str(<<"-", "5">>), Absent),
     Query(Str(<<"0">>), Str(<<"0">>)),
     Query(Str(<<"2">>), Str(<<"1">>)),
     Query(Str(<<"a", "b", "c">>), Str(<<"a", "b", "c">>)),
     Query(Absent, Str(<<"9", "9", "9", "9", "9">>)),
     Query(Str(<<"2">>), Str(<<"-", "3">>)),
     Query(Str(<<"-", "5">>), Str(<<"-", "3">>))}

RoleBodies ==
    {[NoBody EXCEPT !.role = Text("USER")],
     [NoBody EXCEPT !.role = Text("ADMIN")]}

ListedMovements ==
    [MovementIds ->
        {NoMovement} \cup
        {[InitialMovement(u) EXCEPT !.date = d] :
            u \in UserIds, d \in {20250101, 20250201}}]

InitList ==
    /\ users \in [UserIds -> [role : Roles, name : {Text("ann")}]]
    /\ movements \in ListedMovements
    /\ last = Idle
    /\ pre = Tables
    /\ demoted = {}
    /\ flight = NoFlight
    /\ screen = NoScreen

GetMovements == GetMovementsOver(Queries)
PagesGetMovements == PagesGetMovementsOver(Queries)
UserRolePatch == UserPatchOver(RoleBodies)

NextList ==
    \/ GetMovements
    \/ PagesGetMovements
    \/ UserRolePatch
    \/ Reply

SpecList == InitList /\ [][NextList]_vars

(***************************************************************************)
(* The user-management specification: List, Update and Delete of users.    *)
(***************************************************************************)
UserBodies ==
    {NoBody,
     [NoBody EXCEPT !.name = Str(<<" ", "bob", " ">>)],
     [NoBody EXCEPT !.name = Units(7)],
     [NoBody EXCEPT !.role = Text("USER")],
     [NoBody EXCEPT !.role = Text("ADMIN")],
     [NoBody EXCEPT !.role = Text("SUPERADMIN")],
     [NoBody EXCEPT !.name = Text("bob"), !.role = Text("USER")]}

InitUsers ==
    /\ users \in InitialUsers
    /\ movements = [m \in MovementIds |-> NoMovement]
    /\ last = Idle
    /\ pre = Tables
    /\ demoted = {}
    /\ flight = NoFlight
    /\ screen = NoScreen

UserPatch == UserPatchOver(UserBodies)

NextUsers ==
    \/ UsersList
    \/ UserPatch
    \/ UserDelete
    \/ Reply

SpecUsers == InitUsers /\ [][NextUsers]_vars

(***************************************************************************)
(* The payload specification: Create and Update of movements (the routes   *)
(* of the zod schemas) with bodies that differ from a valid one in a       *)
(* single field.                                                           *)
(***************************************************************************)
Blank == [Salary EXCEPT !.concept = Str(<<" ", " ">>)]
Markup == [Salary EXCEPT !.concept = Str(<<"<", "b", ">">>)]
TooLong == [Salary EXCEPT !.concept = Str(Chars(MaxConceptLength + 1, "a"))]
EmptyConcept == [Salary EXCEPT !.concept = Str(<<>>)]
Zero == [Salary EXCEPT !.amount = Units(0)]
Negative == [Salary EXCEPT !.amount = Units(0 - 10)]
TextAmount == [Salary EXCEPT !.amount = Str(<<"a", "b", "c">>)]
OverMax == [Salary EXCEPT !.amount = Num(MaxAmount, 10)]
BareDate == [Salary EXCEPT !.date = Text(DateOnly)]
BadDate == [Salary EXCEPT !.date = Text(NotADate)]
LowerType == [Salary EXCEPT !.type = Text("income")]
OnlyUnknown == [NoBody EXCEPT !.userId = Units(1)]

FieldBodies ==
    {Salary, Blank, Markup, TooLong, EmptyConcept, Zero, Negative, TextAmount,
     OverMax, BareDate, BadDate, LowerType, NoBody, OnlyUnknown}

InitFields ==
    /\ users = [u \in UserIds |-> [role |-> "ADMIN", name |-> Text("ann")]]
    /\ movements \in InitialMovements
    /\ last = Idle
    /\ pre = Tables
    /\ demoted = {}
    /\ flight = NoFlight
    /\ screen = NoScreen

PostFields == PostMovementOver(FieldBodies)
PatchFields == PatchMovementOver(FieldBodies)

NextFields ==
    \/ PostFields
    \/ PatchFields
    \/ Reply

SpecFields == InitFields /\ [][NextFields]_vars

(***************************************************************************)
(* The CSV exporter (lib/csv.ts).  Texts are sequences of characters.      *)
(***************************************************************************)
Quote == "\""
NewLine == "\n"
Comma == ","

\* const dangerousChars
dangerousChars == {"=", "+", "-", "@", "|", "%"}

RECURSIVE NatToString(_)
NatToString(n) ==
    IF n < 10 THEN <<Digits[n + 1]>>
    ELSE NatToString(n \div 10) \o <<Digits[(n % 10) + 1]>>

\* String(n).padStart(width, '0')
RECURSIVE PadStart(_, _)
PadStart(s, width) == IF Len(s) >= width THEN s ELSE PadStart(<<"0">> \o s, width)

RECURSIVE StripZeros(_)
StripZeros(s) ==
    IF s # <<>> /\ s[Len(s)] = "0" THEN StripZeros(SubSeq(s, 1, Len(s) - 1))
    ELSE s

\* Number(amount).toString() of a decimal n + f/1000
UnsignedToString(a) ==
    NatToString(a.n) \o
    (IF a.f = 0 THEN <<>>
     ELSE <<".">> \o StripZeros(PadStart(NatToString(a.f), 3)))

NumberToString(a) ==
    IF a.n >= 0 THEN UnsignedToString(a)
    ELSE <<"-">> \o UnsignedToString(
            IF a.f = 0 THEN [n |-> 0 - a.n, f |-> 0]
            ELSE [n |-> (0 - a.n) - 1, f |-> 1000 - a.f])

\* date.toISOString() of midnight UTC of the day yyyymmdd: years above 9999
\* are written with a sign and six digits
toISOString(date) ==
    LET year == date \div 10000
        month == (date \div 100) % 100
        day == date % 100
    IN  (IF year <= 9999 THEN PadStart(NatToString(year), 4)
         ELSE <<"+">> \o PadStart(NatToString(year), 6))
        \o <<"-">> \o PadStart(NatToString(month), 2)
        \o <<"-">> \o PadStart(NatToString(day), 2)
        \o <<"T", "0", "0", ":", "0", "0", ":", "0", "0", ".", "0", "0", "0",
             "Z">>

TypeText(type) ==
    IF type = "INCOME" THEN <<"I", "N", "C", "O", "M", "E">>
    ELSE <<"E", "X", "P", "E", "N", "S", "E">>

csvHeader ==
    <<"c", "o", "n", "c", "e", "p", "t", ",", "a", "m", "o", "u", "n",
      "t", ",", "d", "a", "t", "e", ",", "t", "y", "p", "e", ",", "u",
      "s", "e", "r", "n", "a", "m", "e">>

UnknownUser == <<"U", "n", "k", "n", "o", "w", "n", " ", "U", "s", "e", "r">>

\* user?.name ?? user?.email ?? 'Unknown User'
username(user) ==
    IF user.k = "null" THEN UnknownUser
    ELSE IF user.name.k = "string" THEN user.name.s
    ELSE user.email

\* sanitizeCsvValue
sanitizeCsvValueNever(value) == value

sanitizeCsvValue(value) ==
    IF value = <<>> THEN value
    ELSE IF value[1] \in dangerousChars THEN <<"'">> \o value
    ELSE value

\* String(value).replaceAll('"', '""')
RECURSIVE replaceAllQuotes(_)
replaceAllQuotes(value) ==
    IF value = <<>> THEN <<>>
    ELSE (IF Head(value) = Quote THEN <<Quote, Quote>> ELSE <<Head(value)>>)
         \o replaceAllQuotes(Tail(value))

\* array.join(separator)
RECURSIVE join(_, _)
join(array, separator) ==
    IF array = <<>> THEN <<>>
    ELSE IF Len(array) = 1 THEN array[1]
    ELSE array[1] \o separator \o join(Tail(array), separator)

\* the callback of movements.map in generateMovementsCsv
csvRow(movement) ==
    LET cells == <<sanitizeCsvValue(movement.concept),
                   NumberToString(movement.amount),
                   toISOString(movement.date),
                   TypeText(movement.type),
                   sanitizeCsvValue(username(movement.user))>>
    IN  join([i \in 1..5 |-> <<Quote>> \o replaceAllQuotes(cells[i]) \o <<Quote>>],
             <<Comma>>)

\* generateMovementsCsv
generateMovementsCsvEndingLine(rows) ==
    join(<<csvHeader>> \o [i \in 1..Len(rows) |-> csvRow(rows[i])],
         <<NewLine>>) \o <<NewLine>>

generateMovementsCsv(rows) ==
    join(<<csvHeader>> \o [i \in 1..Len(rows) |-> csvRow(rows[i])],
         <<NewLine>>)

GenerateMovementsCsvOver(inputs) ==
    /\ last = Idle
    /\ \E rows \in inputs :
          last' = [Idle EXCEPT !.op = "generateMovementsCsv",
                               !.rows = rows,
                               !.data = generateMovementsCsv(rows)]
    /\ pre' = Tables
    /\ UNCHANGED <<users, movements, demoted, flight, screen>>

(***************************************************************************)
(* The exporter specification: generateMovementsCsv applied to every       *)
(* sequence of at most MaxCsvRows of the records below.                    *)
(***************************************************************************)
NullUser == [k |-> "null", name |-> [k |-> "null", s |-> <<>>], email |-> <<>>]
Named(name) ==
    [k |-> "user", name |-> [k |-> "string", s |-> name],
     email |-> <<"a", "@", "x">>]
Unnamed(email) ==
    [k |-> "user", name |-> [k |-> "null", s |-> <<>>], email |-> email]

CsvRecord(concept, amount, date, type, user) ==
    [concept |-> concept, amount |-> amount, date |-> date, type |-> type,
     user |-> user]

CsvRecords ==
    {CsvRecord(<<"R", "e", "n", "t">>, [n |-> 500, f |-> 0], 20250102,
               "EXPENSE", Unnamed(<<"b", "@", "x">>)),
     CsvRecord(<<"=", "1", "+", "1">>, [n |-> 100, f |-> 0], 20250101,
               "INCOME", Named(<<"@", "S", "U", "M">>)),
     CsvRecord(<<"+", "c", "|", "d">>, [n |-> 1500, f |-> 500], 20250101,
               "EXPENSE", Named(<<"-", "2", "+", "5">>)),
     CsvRecord(<<"|", "x">>, [n |-> 1, f |-> 0], 20250101,
               "INCOME", Named(<<"%", "y">>)),
     CsvRecord(<<"B", Quote, "Q", Quote>>, [n |-> 250, f |-> 0], 20250301,
               "INCOME", NullUser),
     CsvRecord(<<Quote, "=", "1">>, [n |-> 0, f |-> 10], 20250101,
               "INCOME", Named(<<"A", Quote>>)),
     CsvRecord(<<"a", NewLine, "b", Comma, "c">>, [n |-> 7, f |-> 0],
               20251231, "EXPENSE", Named(<<>>)),
     CsvRecord(<<>>, [n |-> 1000, f |-> 0], 20250101,
               "INCOME", Unnamed(<<"=", "@", "x">>)),
     CsvRecord(<<" ", "=", "1">>, [n |-> 0 - 5, f |-> 0], 20250101,
               "EXPENSE", Named(<<"A", "l">>)),
     CsvRecord(<<"S", "a", "l">>, [n |-> 1000, f |-> 0], 100000101,
               "INCOME", Named(<<"A", "l">>))}

RECURSIVE SeqsUpTo(_, _)
SeqsUpTo(S, n) ==
    IF n = 0 THEN {<<>>}
    ELSE LET shorter == SeqsUpTo(S, n - 1)
         IN  shorter \cup {Append(s, x) : s \in shorter, x \in S}

CsvInputs == SeqsUpTo(CsvRecords, MaxCsvRows)

InitCsv ==
    /\ users = [u \in UserIds |-> NoUser]
    /\ movements = [m \in MovementIds |-> NoMovement]
    /\ last = Idle
    /\ pre = Tables
    /\ demoted = {}
    /\ flight = NoFlight
    /\ screen = NoScreen

GenerateMovementsCsv == GenerateMovementsCsvOver(CsvInputs)

NextCsv ==
    \/ GenerateMovementsCsv
    \/ Reply

SpecCsv == InitCsv /\ [][NextCsv]_vars

(***************************************************************************)
(* JavaScript numbers.  A number is an IEEE-754 binary64 value: a sign,    *)
(* MantissaBits bits of which the first is 1, and the exponent exp of the  *)
(* first bit, so that its magnitude is the sum of bits[i] * 2^(exp-i+1).   *)
(* The amounts of the model stay far from the subnormal and the infinite   *)
(* range.                                                                  *)
(***************************************************************************)
MantissaBits == 53
FractionBits == 64

PlusZero == NoNumber

RECURSIVE StripLeadingZeros(_)
StripLeadingZeros(bits) ==
    IF bits # <<>> /\ bits[1] = 0 THEN StripLeadingZeros(Tail(bits)) ELSE bits

\* bits + 1, one bit longer when every bit is 1
RECURSIVE Increment(_)
Increment(bits) ==
    IF bits = <<>> THEN <<1>>
    ELSE LET n == Len(bits)
         IN  IF bits[n] = 0 THEN [bits EXCEPT ![n] = 1]
             ELSE Increment(SubSeq(bits, 1, n - 1)) \o <<0>>

\* round to nearest, ties to even: the number nearest to the magnitude
\* written by `bits` from the weight 2^exp downwards, plus something below
\* the last bit when `sticky`
RoundToNearest(neg, bits, exp, sticky) ==
    LET digits == StripLeadingZeros(bits)
        first == exp - (Len(bits) - Len(digits))
        n == Len(digits)
    IN  IF digits = <<>> THEN PlusZero
        ELSE IF n <= MantissaBits
        THEN [neg |-> neg,
              bits |-> digits \o [i \in 1..(MantissaBits - n) |-> 0],
              exp |-> first]
        ELSE LET kept == SubSeq(digits, 1, MantissaBits)
                 guard == digits[MantissaBits + 1]
                 below == sticky \/ \E i \in (MantissaBits + 2)..n : digits[i] = 1
                 up == guard = 1 /\ (below \/ kept[MantissaBits] = 1)
                 raised == Increment(kept)
             IN  IF ~up THEN [neg |-> neg, bits |-> kept, exp |-> first]
                 ELSE IF Len(raised) = MantissaBits
                 THEN [neg |-> neg, bits |-> raised, exp |-> first]
                 ELSE [neg |-> neg, bits |-> SubSeq(raised, 1, MantissaBits),
                       exp |-> first + 1]

RECURSIVE IntegerBits(_)
IntegerBits(n) == IF n = 0 THEN <<>> ELSE IntegerBits(n \div 2) \o <<n % 2>>

\* the first `count` binary digits of r/1000 and the remainder after them
RECURSIVE BinaryFraction(_, _, _)
BinaryFraction(r, count, done) ==
    IF count = 0 THEN [bits |-> done, rest |-> r]
    ELSE BinaryFraction((2 * r) % 1000, count - 1,
                        Append(done, IF 2 * r >= 1000 THEN 1 ELSE 0))

\* Number(amount) of the decimal n + f/1000, n >= 0
Number(amount) ==
    LET whole == IntegerBits(amount.n)
        fraction == BinaryFraction(amount.f, FractionBits, <<>>)
    IN  RoundToNearest(FALSE, whole \o fraction.bits, Len(whole) - 1,
                       fraction.rest # 0)

\* the bits of x at the weights 2^top down to 2^bottom
Aligned(x, top, bottom) ==
    [i \in 1..(top - bottom + 1) |->
        LET j == x.exp - (top - i + 1) + 1
        IN  IF j \in 1..Len(x.bits) THEN x.bits[j] ELSE 0]

\* x + y of two rows of bits of one length, one bit longer: the carry into
\* a place comes from the nearest place to its right where the bits agree
AddBits(x, y) ==
    LET width == Len(x)
        carry(i) ==
            IF \E j \in (i + 1)..width :
                  /\ x[j] = 1
                  /\ y[j] = 1
                  /\ \A k \in (i + 1)..(j - 1) : x[k] # y[k]
            THEN 1 ELSE 0
    IN  [i \in 1..(width + 1) |->
            IF i = 1 THEN carry(0)
            ELSE (x[i - 1] + y[i - 1] + carry(i - 1)) % 2]

\* x - y of two rows of bits of one length, x not below y: the borrow from
\* a place comes from the nearest place to its right where the bits differ
SubtractBits(x, y) ==
    LET width == Len(x)
        borrow(i) ==
            IF \E j \in (i + 1)..width :
                  /\ x[j] = 0
                  /\ y[j] = 1
                  /\ \A k \in (i + 1)..(j - 1) : x[k] = y[k]
            THEN 1 ELSE 0
    IN  [i \in 1..width |-> (x[i] - y[i] - borrow(i) + 2) % 2]

\* x < y for magnitudes
RECURSIVE BitsBelow(_, _)
BitsBelow(x, y) ==
    IF x = <<>> THEN FALSE
    ELSE IF Head(x) # Head(y) THEN Head(x) < Head(y)
    ELSE BitsBelow(Tail(x), Tail(y))

Below(x, y) ==
    IF x.bits = <<>> THEN y.bits # <<>>
    ELSE IF y.bits = <<>> THEN FALSE
    ELSE IF x.exp # y.exp THEN x.exp < y.exp
    ELSE BitsBelow(x.bits, y.bits)

\* x + y of two numbers that are not negative
Plus(x, y) ==
    IF x.bits = <<>> THEN y
    ELSE IF y.bits = <<>> THEN x
    ELSE LET top == Max(x.exp, y.exp)
             bottom == Min(x.exp, y.exp) - (MantissaBits - 1)
         IN  RoundToNearest(FALSE,
                            AddBits(Aligned(x, top, bottom),
                                    Aligned(y, top, bottom)),
                            top + 1, FALSE)

\* x - y of two numbers that are not negative
Minus(x, y) ==
    IF y.bits = <<>> THEN x
    ELSE IF x.bits = <<>> THEN [y EXCEPT !.neg = TRUE]
    ELSE IF x = y THEN PlusZero
    ELSE LET top == Max(x.exp, y.exp)
             bottom == Min(x.exp, y.exp) - (MantissaBits - 1)
             larger == IF Below(x, y) THEN y ELSE x
             smaller == IF Below(x, y) THEN x ELSE y
         IN  RoundToNearest(Below(x, y),
                            SubtractBits(Aligned(larger, top, bottom),
                                         Aligned(smaller, top, bottom)),
                            top, FALSE)

(***************************************************************************)
(* The reports route: totals and monthly aggregates of every movement.     *)
(* A stored date is midnight UTC of its day; getFullYear and getMonth read *)
(* it in the server's zone, which is UTC or one behind UTC.                *)
(***************************************************************************)
Zones == {"UTC", "behind"}

\* movement.date.getFullYear(), movement.date.getMonth() + 1
LocalMonth(date, zone) ==
    LET year == date \div 10000
        month == (date \div 100) % 100
        day == date % 100
    IN  IF zone = "UTC" \/ day > 1 THEN [year |-> year, monthIndex |-> month]
        ELSE IF month > 1 THEN [year |-> year, monthIndex |-> month - 1]
        ELSE [year |-> year - 1, monthIndex |-> 12]

\* const monthKey = `${year}-${String(monthIndex).padStart(2, '0')}`
monthKey(date, zone) ==
    NatToString(LocalMonth(date, zone).year) \o <<"-">>
    \o PadStart(NatToString(LocalMonth(date, zone).monthIndex), 2)

\* the sum the forEach leaves in a counter of `type` that starts at 0
RECURSIVE Accumulated(_, _)
Accumulated(rows, type) ==
    IF rows = <<>> THEN PlusZero
    ELSE LET n == Len(rows)
             before == Accumulated(SubSeq(rows, 1, n - 1), type)
         IN  IF rows[n].type = type
             THEN Plus(before, Number(rows[n].amount))
             ELSE before

\* the keys of byMonth
MonthKeys(rows, zone) == {monthKey(rows[i].date, zone) : i \in 1..Len(rows)}

\* byMonth[key]
byMonth(rows, zone, key) ==
    LET InMonth(row) == monthKey(row.date, zone) = key
        counted == SelectSeq(rows, InMonth)
    IN  [month |-> key,
         income |-> Accumulated(counted, "INCOME"),
         expense |-> Accumulated(counted, "EXPENSE")]

\* a.localeCompare(b) < 0 for texts of digits and hyphens
CharRank(c) == IF c = "-" THEN 0 ELSE CHOOSE i \in 1..10 : Digits[i] = c

RECURSIVE localeCompareBefore(_, _)
localeCompareBefore(a, b) ==
    IF b = <<>> THEN FALSE
    ELSE IF a = <<>> THEN TRUE
    ELSE IF Head(a) # Head(b) THEN CharRank(Head(a)) < CharRank(Head(b))
    ELSE localeCompareBefore(Tail(a), Tail(b))

\* Object.entries(byMonth).sort(...).map(...)
monthly(rows, zone) ==
    LET keys == MonthKeys(rows, zone)
        place(key) == 1 + Cardinality({k \in keys : localeCompareBefore(k, key)})
    IN  [i \in 1..Cardinality(keys) |->
            byMonth(rows, zone, CHOOSE key \in keys : place(key) = i)]

\* prisma.movement.findMany({orderBy: {date: 'asc'}}): movements of one date
\* come in either order
DateAscending ==
    {order \in Orderings({m \in MovementIds : movements[m].present}) :
        \A i \in 1..(Len(order) - 1) :
            movements[order[i]].date <= movements[order[i + 1]].date}

\* the body of the 200 response
Report(rows, zone, totalCount) ==
    [totalIncome |-> Accumulated(rows, "INCOME"),
     totalExpense |-> Accumulated(rows, "EXPENSE"),
     balance |-> Minus(Accumulated(rows, "INCOME"),
                       Accumulated(rows, "EXPENSE")),
     monthly |-> monthly(rows, zone),
     totalMovements |-> totalCount]

\* handler of reports behind withRole('ADMIN'); `counted` for the revision
\* that also answers movement.count()
ReportsHandler(req, counted) ==
    IF ~withAuth(req.auth)
    THEN /\ Respond(req, 401, "UNAUTHORIZED", {})
         /\ UNCHANGED <<users, movements, demoted>>
    ELSE IF ~withRole({"ADMIN"}, req.auth, req.dbDown)
    THEN /\ Respond(req, 403, "FORBIDDEN", {"user.findUnique"})
         /\ UNCHANGED <<users, movements, demoted>>
    ELSE /\ \E order \in DateAscending :
               Respond([req EXCEPT
                           !.data = order,
                           !.report =
                               Report([i \in 1..Len(order) |-> movements[order[i]]],
                                      req.zone,
                                      IF counted THEN Len(order) ELSE 0)],
                       200, "",
                       {"user.findUnique", "movement.findMany"}
                           \cup (IF counted THEN {"movement.count"} ELSE {}))
         /\ UNCHANGED <<users, movements, demoted>>

ReportsGet ==
    /\ last = Idle
    /\ \E auth \in Sessions, zone \in Zones :
         \E dbDown \in Faults(auth) :
            ReportsHandler(
                [Idle EXCEPT !.op = "GET /reports", !.auth = auth,
                             !.dbDown = dbDown, !.zone = zone], TRUE)

PagesReportsGet ==
    /\ last = Idle
    /\ \E auth \in Sessions, zone \in Zones :
         \E dbDown \in Faults(auth) :
            ReportsHandler(
                [Idle EXCEPT !.op = "GET /reports (pages)", !.auth = auth,
                             !.dbDown = dbDown, !.zone = zone], FALSE)

(***************************************************************************)
(* The reports specification: the report of every table of at most         *)
(* MaxMovements of the movements below, asked by every session.            *)
(***************************************************************************)
Booked(amount, date, type) ==
    [present |-> TRUE, userId |-> 1, concept |-> <<"a">>, amount |-> amount,
     date |-> date, type |-> type]

ReportMovements ==
    {Booked([n |-> 0, f |-> 100], 20250101, "INCOME"),
     Booked([n |-> 0, f |-> 200], 20250201, "INCOME"),
     Booked([n |-> 0, f |-> 300], 20250215, "INCOME"),
     Booked([n |-> 1000, f |-> 0], 20250115, "INCOME"),
     Booked([n |-> 0, f |-> 100], 20250101, "EXPENSE"),
     Booked([n |-> 1500, f |-> 500], 20241231, "EXPENSE")}

InitReports ==
    /\ users = [u \in UserIds |->
                   [role |-> IF u = 1 THEN "ADMIN" ELSE "USER",
                    name |-> Text("ann")]]
    /\ movements \in [MovementIds -> {NoMovement} \cup ReportMovements]
    /\ last = Idle
    /\ pre = Tables
    /\ demoted = {}
    /\ flight = NoFlight
    /\ screen = NoScreen

NextReports ==
    \/ ReportsGet
    \/ PagesReportsGet
    \/ Reply

SpecReports == InitReports /\ [][NextReports]_vars

(***************************************************************************)
(* Concurrent requests.  Every await of a handler on the persistence layer *)
(* is one step; the steps of the requests in flight interleave freely.     *)
(* The handlers run behind withAuth with a session.                        *)
(***************************************************************************)
Answer(r, status, code) ==
    flight' = [flight EXCEPT ![r].at = "done", ![r].status = status,
                             ![r].code = code]

Goto(r, at) == flight' = [flight EXCEPT ![r].at = at]

BeginOver(r, starts) ==
    /\ flight[r].at = "waiting"
    /\ \E start \in starts : flight' = [flight EXCEPT ![r] = start]
    /\ UNCHANGED <<users, movements, last, pre, demoted, screen>>

\* withRole('ADMIN', handler): await prisma.user.findUnique of the session's
\* user, then the handler
Wrapped(method) ==
    CASE method = "POST /movements" -> "create"
      [] method = "GET /users" -> "user.findMany"
      [] method = "PATCH /users/id" -> "user.update"
      [] method = "DELETE /users/id" -> "user.findUnique"

AwaitRole(r) ==
    /\ flight[r].at = "withRole"
    /\ IF ~withRole({"ADMIN"}, flight[r].auth, FALSE)
       THEN Answer(r, 403, "FORBIDDEN")
       ELSE Goto(r, Wrapped(flight[r].method))
    /\ UNCHANGED <<users, movements, last, pre, demoted, screen>>

\* handler of users (GET): const users = await prisma.user.findMany(...)
AwaitUsers(r) ==
    /\ flight[r].at = "user.findMany"
    /\ flight' = [flight EXCEPT
           ![r].data = Descending({u \in UserIds : users[u].role # "NONE"}),
           ![r].at = "done", ![r].status = 200]
    /\ UNCHANGED <<users, movements, last, pre, demoted, screen>>

\* users/[id], PATCH branch: try { await prisma.user.update(...) } catch
\* { 404 }; the update throws when the row is gone
AwaitUserUpdate(r) ==
    /\ flight[r].at = "user.update"
    /\ LET req == flight[r] IN
       IF req.body.role.k # "absent" /\ ~UserRoleAccepted(req.body.role)
       THEN /\ Answer(r, 400, "INVALID_ROLE")
            /\ UNCHANGED <<users, demoted>>
       ELSE IF ~UserPatchHasData(req.body)
       THEN /\ Answer(r, 400, "NO_FIELDS")
            /\ UNCHANGED <<users, demoted>>
       ELSE IF users[req.id].role = "NONE"
       THEN /\ flight' = [flight EXCEPT ![r].thrown = "missing",
                                        ![r].at = "done", ![r].status = 404]
            /\ UNCHANGED <<users, demoted>>
       ELSE /\ users' = [users EXCEPT ![req.id] = UserPatchData(@, req.body)]
            /\ demoted' = DemotedAfterPatch(req.id, req.body)
            /\ Answer(r, 200, "")
    /\ UNCHANGED <<movements, last, pre, screen>>

\* users/[id], DELETE branch: const user = await prisma.user.findUnique(...)
AwaitUser(r) ==
    /\ flight[r].at = "user.findUnique"
    /\ IF users[flight[r].id].role = "NONE"
       THEN Answer(r, 404, "")
       ELSE flight' = [flight EXCEPT
                          ![r].user = users[flight[r].id],
                          ![r].at = IF users[flight[r].id].role = "ADMIN"
                                    THEN "user.count" ELSE "user.delete"]
    /\ UNCHANGED <<users, movements, last, pre, demoted, screen>>

\* const adminCount = await prisma.user.count({where: {role: 'ADMIN'}})
AwaitAdminCount(r) ==
    /\ flight[r].at = "user.count"
    /\ IF LastAdmin(Cardinality(Admins))
       THEN flight' = [flight EXCEPT ![r].adminCount = Cardinality(Admins),
                                     ![r].at = "done", ![r].status = 400,
                                     ![r].code = "LAST_ADMIN"]
       ELSE flight' = [flight EXCEPT ![r].adminCount = Cardinality(Admins),
                                     ![r].at = "user.delete"]
    /\ UNCHANGED <<users, movements, last, pre, demoted, screen>>

\* an exception that no catch of the route takes leaves the handler; the
\* framework answers 500 in its place
Uncaught(req, thrown) ==
    [req EXCEPT !.thrown = thrown, !.at = "done", !.status = 500,
                !.code = "UNCAUGHT"]

\* await prisma.user.delete(...): it throws when the row is gone, and the
\* DELETE branch has no catch
AwaitUserDelete(r) ==
    /\ flight[r].at = "user.delete"
    /\ IF users[flight[r].id].role = "NONE"
       THEN /\ flight' = [flight EXCEPT ![r] = Uncaught(@, "missing")]
            /\ UNCHANGED <<users, demoted>>
       ELSE /\ users' = [users EXCEPT ![flight[r].id] = NoUser]
            /\ demoted' = demoted \ {flight[r].id}
            /\ Answer(r, 204, "")
    /\ UNCHANGED <<movements, last, pre, screen>>

\* movements/[id]: const movement = await prisma.movement.findUnique(...)
AwaitMovement(r) ==
    /\ flight[r].at = "movement.findUnique"
    /\ IF ~movements[flight[r].id].present
       THEN Answer(r, 404, "")
       ELSE flight' = [flight EXCEPT ![r].movement = movements[flight[r].id],
                                     ![r].at = "role"]
    /\ UNCHANGED <<users, movements, last, pre, demoted, screen>>

\* movements/[id]: the stored role of the session's user, then the
\* ownership check on the movement read before
AwaitStoredRole(r) ==
    /\ flight[r].at = "role"
    /\ IF ~isAdmin(flight[r].auth, FALSE)
          /\ ~isOwner(flight[r].auth, flight[r].movement)
       THEN Answer(r, 403, "NOT_OWNER")
       ELSE Goto(r, "mutate")
    /\ UNCHANGED <<users, movements, last, pre, demoted, screen>>

\* the catch of handlePatch and of handleDelete: 'Record to update not
\* found' and 'Record to delete does not exist' are answered with 404
\* MOVEMENT_NOT_FOUND, every other error with 500 DATABASE_ERROR
handleCatchAll(req, thrown) ==
    [req EXCEPT !.thrown = thrown, !.at = "done", !.status = 500,
                !.code = "DATABASE_ERROR"]

handleCatch(req, thrown) ==
    [req EXCEPT !.thrown = thrown, !.at = "done",
                !.status = IF thrown = "missing" THEN 404 ELSE 500,
                !.code = IF thrown = "missing" THEN "MOVEMENT_NOT_FOUND"
                         ELSE "DATABASE_ERROR"]

\* handlePatch and handleDelete: prisma.movement.update and delete throw
\* when the row is gone
AwaitMutation(r) ==
    /\ flight[r].at = "mutate"
    /\ LET req == flight[r] IN
       IF req.method = "PATCH /movements/id" /\ ~updateMovementSchema(req.body)
       THEN /\ Answer(r, 400, "VALIDATION")
            /\ UNCHANGED movements
       ELSE IF ~movements[req.id].present
       THEN /\ flight' = [flight EXCEPT ![r] = handleCatch(req, "missing")]
            /\ UNCHANGED movements
       ELSE IF req.method = "PATCH /movements/id"
       THEN /\ movements' = [movements EXCEPT ![req.id] = PatchData(@, req.body)]
            /\ Answer(r, 200, "")
       ELSE /\ movements' = [movements EXCEPT ![req.id] = NoMovement]
            /\ Answer(r, 204, "")
    /\ UNCHANGED <<users, last, pre, demoted, screen>>

\* postHandler: await prisma.movement.create(...)
AwaitCreate(r) ==
    /\ flight[r].at = "create"
    /\ IF ~createMovementSchema(flight[r].body)
       THEN /\ Answer(r, 400, "VALIDATION")
            /\ UNCHANGED movements
       ELSE \E id \in MovementIds :
               /\ ~movements[id].present
               /\ movements' = [movements EXCEPT
                                   ![id] = CreateData(flight[r].auth,
                                                      flight[r].body)]
               /\ flight' = [flight EXCEPT ![r].id = id, ![r].at = "done",
                                           ![r].status = 201]
    /\ UNCHANGED <<users, last, pre, demoted, screen>>

\* getHandler: Promise.all([prisma.movement.count, prisma.movement.findMany])
\* issues the two queries together; each reads the table when it runs, and
\* the response is sent when both have run
ListAnswered(req) ==
    IF req.counted /\ req.paged
    THEN [req EXCEPT !.at = "done", !.status = 200]
    ELSE req

AwaitCount(r) ==
    /\ flight[r].at = "queries"
    /\ ~flight[r].counted
    /\ LET req == flight[r]
           total == Cardinality(Scoped(req.auth.role = "ADMIN", req.auth))
       IN  flight' = [flight EXCEPT
                         ![r] = ListAnswered([req EXCEPT !.counted = TRUE,
                                                         !.total = total])]
    /\ UNCHANGED <<users, movements, last, pre, demoted, screen>>

AwaitPage(r) ==
    /\ flight[r].at = "queries"
    /\ ~flight[r].paged
    /\ LET req == flight[r]
           pageSize == ClampedLimit(req.limit)
           skip == (ClampedPage(req.page) - 1) * pageSize
       IN  \E rows \in findMany(Scoped(req.auth.role = "ADMIN", req.auth),
                                skip, pageSize) :
              flight' = [flight EXCEPT
                            ![r] = ListAnswered([req EXCEPT !.paged = TRUE,
                                                            !.data = rows])]
    /\ UNCHANGED <<users, movements, last, pre, demoted, screen>>

\* an await fails for a reason other than a missing record (the connection
\* is lost, the query times out): what the code around that await does
PersistenceThrows(r) ==
    /\ LET req == flight[r] IN
       CASE req.at = "withRole" ->
              IF ~withRole({"ADMIN"}, req.auth, TRUE)
              THEN Answer(r, 403, "FORBIDDEN")
              ELSE Goto(r, Wrapped(req.method))
         [] req.at = "role" ->
              IF ~isAdmin(req.auth, TRUE) /\ ~isOwner(req.auth, req.movement)
              THEN Answer(r, 403, "NOT_OWNER")
              ELSE Goto(r, "mutate")
         [] req.at = "mutate" ->
              /\ req.method = "PATCH /movements/id"
                    => updateMovementSchema(req.body)
              /\ flight' = [flight EXCEPT ![r] = handleCatch(req, "other")]
         [] req.at = "create" ->
              /\ createMovementSchema(req.body)
              /\ flight' = [flight EXCEPT
                               ![r] = handleCatchAll(req, "other")]
         [] req.at = "user.update" ->
              /\ req.body.role.k # "absent" => UserRoleAccepted(req.body.role)
              /\ UserPatchHasData(req.body)
              /\ flight' = [flight EXCEPT ![r].thrown = "other",
                               ![r].at = "done", ![r].status = 404]
         [] req.at \in {"movement.findUnique", "queries", "user.findMany",
                        "user.findUnique", "user.count", "user.delete"} ->
              flight' = [flight EXCEPT ![r] = Uncaught(req, "other")]
         [] OTHER -> FALSE
    /\ UNCHANGED <<users, movements, last, pre, demoted, screen>>

\* the requests that start: a session carries the role stored when it began
Logged == {auth \in Sessions : auth # NoAuth /\ users[auth.id].role = auth.role}

Started(method, at) ==
    {[Sleeping EXCEPT !.method = method, !.at = at, !.auth = auth] :
        auth \in Logged}

UserDeletes ==
    {[start EXCEPT !.id = id] :
        start \in Started("DELETE /users/id", "withRole"), id \in UserIds}

UserPatches ==
    {[start EXCEPT !.id = id, !.body = body] :
        start \in Started("PATCH /users/id", "withRole"), id \in UserIds,
        body \in RoleBodies}

UserLists == Started("GET /users", "withRole")

MovementDeletes ==
    {[start EXCEPT !.id = id] :
        start \in Started("DELETE /movements/id", "movement.findUnique"),
        id \in MovementIds}

MovementPatches ==
    {[start EXCEPT !.id = id, !.body = OnlyConcept] :
        start \in Started("PATCH /movements/id", "movement.findUnique"),
        id \in MovementIds}

MovementCreates ==
    {[start EXCEPT !.body = Salary] :
        start \in Started("POST /movements", "withRole")}

MovementLists ==
    {[start EXCEPT !.limit = limit] :
        start \in Started("GET /movements", "queries"),
        limit \in {Absent, Units(1)}}

\* the first user is an ADMIN, the others are USERs
Staff ==
    [u \in UserIds |->
        [role |-> IF u = 1 THEN "ADMIN" ELSE "USER", name |-> Text("ann")]]

InitFlight ==
    /\ last = Idle
    /\ pre = Tables
    /\ demoted = {}
    /\ flight = NoFlight
    /\ screen = NoScreen

(***************************************************************************)
(* Two user Deletes in flight.                                             *)
(***************************************************************************)
InitUserRace ==
    /\ users \in [UserIds -> [role : Roles, name : {Text("ann")}]]
    /\ movements = [m \in MovementIds |-> NoMovement]
    /\ InitFlight

BeginUserDelete == \E r \in Requests : BeginOver(r, UserDeletes)
WithRoleStep == \E r \in Requests : AwaitRole(r)
UserFindUniqueStep == \E r \in Requests : AwaitUser(r)
UserCountStep == \E r \in Requests : AwaitAdminCount(r)
UserDeleteStep == \E r \in Requests : AwaitUserDelete(r)

NextUserRace ==
    \/ BeginUserDelete
    \/ WithRoleStep
    \/ UserFindUniqueStep
    \/ UserCountStep
    \/ UserDeleteStep

SpecUserRace == InitUserRace /\ [][NextUserRace]_vars

(***************************************************************************)
(* Two movement requests in flight.                                        *)
(***************************************************************************)
InitMovementRace ==
    /\ users = Staff
    /\ movements \in InitialMovements
    /\ InitFlight

BeginMovementChange ==
    \E r \in Requests : BeginOver(r, MovementDeletes \cup MovementPatches)
BeginMovementCreate == \E r \in Requests : BeginOver(r, MovementCreates)
BeginMovementList == \E r \in Requests : BeginOver(r, MovementLists)
MovementFindUniqueStep == \E r \in Requests : AwaitMovement(r)
StoredRoleStep == \E r \in Requests : AwaitStoredRole(r)
MutationStep == \E r \in Requests : AwaitMutation(r)
CreateStep == \E r \in Requests : AwaitCreate(r)
CountStep == \E r \in Requests : AwaitCount(r)
FindManyStep == \E r \in Requests : AwaitPage(r)

NextMovementRace ==
    \/ BeginMovementChange
    \/ BeginMovementCreate
    \/ BeginMovementList
    \/ WithRoleStep
    \/ MovementFindUniqueStep
    \/ StoredRoleStep
    \/ MutationStep
    \/ CreateStep
    \/ CountStep
    \/ FindManyStep

SpecMovementRace == InitMovementRace /\ [][NextMovementRace]_vars

(***************************************************************************)
(* Requests whose persistence calls can fail.                              *)
(***************************************************************************)
InitFaults ==
    /\ users = Staff
    /\ movements \in InitialMovements
    /\ InitFlight

BeginUserRequest ==
    \E r \in Requests : BeginOver(r, UserDeletes \cup UserPatches \cup UserLists)
UsersFindManyStep == \E r \in Requests : AwaitUsers(r)
UserUpdateStep == \E r \in Requests : AwaitUserUpdate(r)
Throws == \E r \in Requests : PersistenceThrows(r)

NextFaults ==
    \/ BeginMovementChange
    \/ BeginMovementCreate
    \/ BeginMovementList
    \/ BeginUserRequest
    \/ WithRoleStep
    \/ MovementFindUniqueStep
    \/ StoredRoleStep
    \/ MutationStep
    \/ CreateStep
    \/ CountStep
    \/ FindManyStep
    \/ UsersFindManyStep
    \/ UserUpdateStep
    \/ UserFindUniqueStep
    \/ UserCountStep
    \/ UserDeleteStep
    \/ Throws

SpecFaults == InitFaults /\ [][NextFaults]_vars

(***************************************************************************)
(* The movement form modal (components/movements/MovementFormModal.tsx).   *)
(* The parent keeps `open` and sets it to what onOpenChange is called with.*)
(***************************************************************************)
ModalStep(modal) ==
    /\ screen' = [screen EXCEPT !.modal = modal]
    /\ UNCHANGED <<users, movements, last, pre, demoted, flight>>

\* the parent opens the modal
OpenModal ==
    /\ ~screen.modal.open
    /\ ModalStep([screen.modal EXCEPT !.open = TRUE])

\* the catch and finally blocks of handleSubmit
SubmitFailedStillSubmitting(modal) ==
    [modal EXCEPT !.phase = "finished", !.outcome = "throws",
                  !.toast = "error"]

SubmitFailed(modal) ==
    [modal EXCEPT !.phase = "finished", !.outcome = "throws",
                  !.toast = "error", !.isSubmitting = FALSE]

\* handleSubmit up to its await: the button is disabled while isSubmitting;
\* new Date(values.date).toISOString() throws for a date that is no date
HandleSubmit ==
    /\ screen.modal.open
    /\ ~screen.modal.isSubmitting
    /\ screen.modal.submits < MaxSubmits
    /\ \E validDate \in BOOLEAN :
          LET started == [screen.modal EXCEPT
                             !.isSubmitting = TRUE, !.phase = "awaiting",
                             !.outcome = "none", !.closed = FALSE,
                             !.notified = FALSE, !.toast = "none",
                             !.submits = @ + 1]
          IN  ModalStep(IF validDate THEN started ELSE SubmitFailed(started))

\* handleSubmit after await fetch(...): the response is ok, is not ok, or
\* the fetch rejects
FetchSettles ==
    /\ screen.modal.phase = "awaiting"
    /\ \E outcome \in {"ok", "not ok", "throws"} :
          ModalStep(
            IF outcome = "ok"
            THEN [screen.modal EXCEPT
                     !.phase = "finished", !.outcome = "ok",
                     !.toast = "success", !.open = FALSE, !.closed = TRUE,
                     !.notified = screen.modal.onCreated,
                     !.isSubmitting = FALSE]
            ELSE IF outcome = "not ok"
            THEN [screen.modal EXCEPT
                     !.phase = "finished", !.outcome = "not ok",
                     !.toast = "error", !.isSubmitting = FALSE]
            ELSE SubmitFailed(screen.modal))

\* the Cancelar button: onOpenChange(false)
CancelModal ==
    /\ screen.modal.open
    /\ ModalStep([screen.modal EXCEPT !.open = FALSE])

(***************************************************************************)
(* RoleGuard, in its two revisions (components/auth/RoleGuard.tsx and the  *)
(* one with the redirect to /login).  The value of useCurrentUser() is     *)
(* whatever the context provider holds.                                    *)
(***************************************************************************)
GuardRevisions == {"RoleGuard.tsx", "UserDeleteDialog.tsx"}
RoleLists == {{}, {"ADMIN"}, {"USER"}, {"ADMIN", "USER"}}
CurrentUsers == {"NONE"} \cup Roles

\* what RoleGuard returns
RoleGuardAlways(guard) == "children"

RoleGuard(guard) ==
    IF guard.isLoading THEN "nothing"
    ELSE IF guard.error
    THEN IF guard.fallback THEN "fallback" ELSE "error message"
    ELSE IF guard.user = "NONE"
    THEN IF guard.fallback THEN "fallback"
         ELSE IF guard.revision = "RoleGuard.tsx" THEN "login message"
         ELSE "nothing"
    ELSE IF guard.restricted /\ guard.user \notin guard.allowedRoles
    THEN IF guard.fallback THEN "fallback" ELSE "403 message"
    ELSE "children"

\* the effect of the second revision: router.replace('/login')
Redirects(guard) ==
    /\ guard.revision = "UserDeleteDialog.tsx"
    /\ ~guard.isLoading
    /\ ~guard.error
    /\ guard.user = "NONE"
    /\ ~guard.fallback

Rendered(guard) ==
    [guard EXCEPT !.rendered = RoleGuard(guard),
                  !.redirected = guard.redirected \/ Redirects(guard)]

GuardStep(guard) ==
    /\ screen' = [screen EXCEPT !.guard = Rendered(guard)]
    /\ UNCHANGED <<users, movements, last, pre, demoted, flight>>

\* a page renders a RoleGuard with its props
MountGuard ==
    /\ screen.guard.revision = "none"
    /\ \E revision \in GuardRevisions, restricted \in BOOLEAN,
          allowedRoles \in RoleLists, fallback \in BOOLEAN :
          /\ restricted \/ allowedRoles = {}
          /\ GuardStep([screen.guard EXCEPT
                           !.revision = revision, !.restricted = restricted,
                           !.allowedRoles = allowedRoles,
                           !.fallback = fallback])

\* the context value changes and the guard renders again
CurrentUserChanges ==
    /\ screen.guard.revision # "none"
    /\ \E isLoading \in BOOLEAN, error \in BOOLEAN, user \in CurrentUsers :
          GuardStep([screen.guard EXCEPT !.isLoading = isLoading,
                                         !.error = error, !.user = user])

UnmountGuard ==
    /\ screen.guard.revision # "none"
    /\ screen' = [screen EXCEPT !.guard = Unmounted]
    /\ UNCHANGED <<users, movements, last, pre, demoted, flight>>

(***************************************************************************)
(* The client specification: the modal, rendered with or without an        *)
(* onCreated prop, and a guard on one page.                                *)
(***************************************************************************)
InitScreens ==
    /\ users = [u \in UserIds |-> NoUser]
    /\ movements = [m \in MovementIds |-> NoMovement]
    /\ last = Idle
    /\ pre = Tables
    /\ demoted = {}
    /\ flight = NoFlight
    /\ \E onCreated \in BOOLEAN :
          screen = [NoScreen EXCEPT !.modal.onCreated = onCreated]

NextScreens ==
    \/ OpenModal
    \/ HandleSubmit
    \/ FetchSettles
    \/ CancelModal
    \/ MountGuard
    \/ CurrentUserChanges
    \/ UnmountGuard

SpecScreens == InitScreens /\ [][NextScreens]_vars

(***************************************************************************)
(* Claims about the movement mutations (specification Spec).               *)
(***************************************************************************)
ByIdOps == {"PATCH /movements/id", "DELETE /movements/id"}
CreateOps == {"POST /movements", "POST /movements (pages)"}

\* the request of `last` addressed a movement that existed when it started
OnExistingMovement ==
    /\ last.op \in ByIdOps
    /\ last.auth # NoAuth
    /\ last.id # 0
    /\ pre.movements[last.id].present

\* the role the movements/[id] handler resolves for the principal of `last`:
\* the stored one (none when the user has no row), the session's when the
\* lookup of the stored role throws
ResolvedRole ==
    IF last.dbDown THEN last.auth.role ELSE pre.users[last.auth.id].role

\* what a PATCH or DELETE that passed every check has done by its response
MutationApplied ==
    IF last.op = "DELETE /movements/id"
    THEN last.status = 204 /\ ~movements[last.id].present
    ELSE IF updateMovementSchema(last.body)
         THEN last.status = 200 /\ movements[last.id].present
         ELSE last.status = 400 /\ movements = pre.movements

\* what a refused PATCH or DELETE looks like
RefusedNotOwner ==
    /\ last.status = 403
    /\ last.code = "NOT_OWNER"
    /\ movements = pre.movements

C6_UserCreateForbidden ==
    (/\ last.op \in CreateOps
     /\ last.auth.role = "USER"
     /\ pre.users[last.auth.id].role = "USER"
     /\ ~last.dbDown)
    => (last.status = 403 /\ movements = pre.movements)

\* C7: the movement stored by a successful Create is owned by the principal
\* of the request, whatever the body carries, and is the only row changed.
C7_CreatedForPrincipal ==
    (last.op \in CreateOps /\ last.status = 201) =>
        /\ ~pre.movements[last.id].present
        /\ movements[last.id].present
        /\ movements[last.id].userId = last.auth.id
        /\ \A m \in MovementIds \ {last.id} : movements[m] = pre.movements[m]

\* C7 witness: a Create whose body names another user as userId succeeded
C7_Witness ==
    /\ last.op \in CreateOps
    /\ last.status = 201
    /\ last.body.userId.k = "number"
    /\ last.body.userId.n # last.auth.id
    /\ movements[last.id].userId = last.auth.id

\* C9: PATCH and DELETE by id answer the earliest failing check in the order
\* authentication (401), existence (404), ownership (403), payload (400).
C9_CheckOrder ==
    (last.op \in ByIdOps /\ last.id # 0) =>
        IF last.auth = NoAuth THEN last.status = 401
        ELSE IF ~pre.movements[last.id].present THEN last.status = 404
        ELSE IF ResolvedRole # "ADMIN"
                /\ last.auth.id # pre.movements[last.id].userId
             THEN last.status = 403
        ELSE IF last.op = "PATCH /movements/id"
                /\ ~updateMovementSchema(last.body)
             THEN last.status = 400
        ELSE last.status \in {200, 204}

\* C9 witness: a USER sent an invalid payload to another user's movement and
\* got 403, not 400
C9_Witness ==
    /\ OnExistingMovement
    /\ last.op = "PATCH /movements/id"
    /\ ResolvedRole = "USER"
    /\ last.auth.id # pre.movements[last.id].userId
    /\ ~updateMovementSchema(last.body)
    /\ last.status = 403

MovementWrites == {"movement.create", "movement.update", "movement.delete"}

OnAnothersMovement ==
    /\ OnExistingMovement
    /\ last.auth.id # pre.movements[last.id].userId

C24_WitnessFallback ==
    /\ OnAnothersMovement
    /\ last.dbDown
    /\ last.auth.role = "ADMIN"
    /\ pre.users[last.auth.id].role = "USER"
    /\ last.status \in {200, 204}

\* C28: withRole and the movements/[id] authorization take the same admin
\* decision for every session role and every outcome of the stored-role
\* lookup (stored ADMIN, stored USER, no row, lookup error)
C28_SameAdminDecision ==
    (last # Idle /\ last.auth # NoAuth) =>
        (withRole({"ADMIN"}, last.auth, last.dbDown)
            <=> isAdmin(last.auth, last.dbDown))

\* C25: a movement Delete answered 204 has removed the addressed movement
\* and nothing else: every other movement and every user is unchanged
C25_DeleteRemovesOne ==
    (last.op = "DELETE /movements/id" /\ last.status = 204) =>
        /\ pre.movements[last.id].present
        /\ ~movements[last.id].present
        /\ \A m \in MovementIds \ {last.id} : movements[m] = pre.movements[m]
        /\ users = pre.users

\* an owner that is a USER deleted one of its two movements
C25_Witness ==
    /\ last.op = "DELETE /movements/id"
    /\ last.status = 204
    /\ pre.users[last.auth.id].role = "USER"
    /\ last.auth.role = "USER"
    /\ \E m \in MovementIds \ {last.id} :
          /\ movements[m].present
          /\ movements[m].userId = last.auth.id
          /\ pre.movements[last.id].userId = last.auth.id

Supplied(field) == last.body[field].k # "absent"

\* C26: a PATCH answered 200 changes only the fields among concept, amount,
\* date and type that its body supplies; the other fields, the owner and
\* every other row keep their values, even if the body carries a userId;
\* and no request changes the owner of a movement
C26_PatchChangesSupplied ==
    /\ (last.op = "PATCH /movements/id" /\ last.status = 200) =>
          /\ \A field \in {"concept", "amount", "date", "type"} :
                ~Supplied(field) =>
                    movements[last.id][field] = pre.movements[last.id][field]
          /\ Supplied("amount") =>
                movements[last.id].amount =
                    [n |-> last.body.amount.n, f |-> last.body.amount.f]
          /\ Supplied("type") => movements[last.id].type = last.body.type.s[1]
          /\ movements[last.id].userId = pre.movements[last.id].userId
          /\ movements[last.id].present
          /\ \A m \in MovementIds \ {last.id} : movements[m] = pre.movements[m]
          /\ users = pre.users
    /\ \A m \in MovementIds :
          (pre.movements[m].present /\ movements[m].present) =>
              movements[m].userId = pre.movements[m].userId

\* a PATCH whose body carries another user's id as userId changed the
\* concept of a movement and left its owner
C26_Witness ==
    /\ last.op = "PATCH /movements/id"
    /\ last.status = 200
    /\ last.body.userId.k = "number"
    /\ last.body.userId.n # pre.movements[last.id].userId
    /\ movements[last.id].concept # pre.movements[last.id].concept
    /\ movements[last.id].userId = pre.movements[last.id].userId

\* a PATCH that supplies the concept alone changed it and left the amount,
\* the date and the type
C26_WitnessPartial ==
    /\ last.op = "PATCH /movements/id"
    /\ last.status = 200
    /\ Supplied("concept")
    /\ ~Supplied("amount") /\ ~Supplied("date") /\ ~Supplied("type")
    /\ movements[last.id].concept # pre.movements[last.id].concept
    /\ movements[last.id].amount = pre.movements[last.id].amount

(***************************************************************************)
(* Claims about the movement listing (specification SpecList).             *)
(***************************************************************************)
ListOps == {"GET /movements", "GET /movements (pages)"}
UserOps == {"GET /users", "PATCH /users/id", "DELETE /users/id"}

Listed == {last.data[i] : i \in 1..Len(last.data)}
OwnedBy(id) ==
    {m \in MovementIds : movements[m].present /\ movements[m].userId = id}
AllMovements == {m \in MovementIds : movements[m].present}

\* what a listing answered 200 for the scope `rows` shows of it
ListingOf(rows) ==
    /\ Listed \subseteq rows
    /\ last.pagination.total = Cardinality(rows)
    /\ (last.pagination.page = 1 /\ last.pagination.limit >= Cardinality(rows)
            => Listed = rows)

\* C2: a listing answered to a principal of role USER shows only movements
\* whose userId is the principal's id and reports as total the number of
\* movements the principal owns; answered to a principal of role ADMIN it
\* is unscoped: every movement is eligible, total counts them all.
C2_ListingScope ==
    (last.op \in ListOps /\ last.status = 200) =>
        IF last.auth.role = "USER"
        THEN last.scope = "own" /\ ListingOf(OwnedBy(last.auth.id))
        ELSE last.scope = "all" /\ ListingOf(AllMovements)

\* a USER was shown its own movement while another user's movement exists
C2_Witness ==
    /\ last.op \in ListOps
    /\ last.status = 200
    /\ last.auth.role = "USER"
    /\ Listed # {}
    /\ Listed = OwnedBy(last.auth.id)
    /\ AllMovements # Listed

\* C5: once the stored role of a user went from ADMIN to USER, no later
\* request of that user is granted ADMIN-level access (here: an unscoped
\* listing, or user management), even when its session still says ADMIN.
C5_NoAdminAccessAfterDemotion ==
    (/\ last.auth # NoAuth
     /\ ~last.dbDown
     /\ last.auth.id \in demoted
     /\ pre.users[last.auth.id].role = "USER") =>
        /\ last.op \in ListOps => last.scope # "all"
        /\ last.op \in UserOps => last.status = 403

\* C10: whatever page and limit are asked, the listing does not fail, the
\* page it uses is at least 1, the limit is between 1 and 100, and
\* totalPages is ceil(total / limit).
C10_PaginationClamped ==
    (last.op \in ListOps /\ last.auth # NoAuth) =>
        /\ last.status = 200
        /\ last.pagination.page >= 1
        /\ last.pagination.limit >= 1
        /\ last.pagination.limit <= MaxPageSize
        /\ (last.pagination.page - 1) * last.pagination.limit >= 0
        /\ last.pagination.totalPages * last.pagination.limit
               >= last.pagination.total
        /\ (last.pagination.totalPages - 1) * last.pagination.limit
               < last.pagination.total

(***************************************************************************)
(* Claims about user management (specification SpecUsers).                 *)
(***************************************************************************)
AdminsBefore == {u \in UserIds : pre.users[u].role = "ADMIN"}

\* the role withRole decided on for the request of `last`
RoleDecided ==
    IF last.dbDown \/ pre.users[last.auth.id].role = "NONE"
    THEN last.auth.role
    ELSE pre.users[last.auth.id].role

UserWork == {"user.findMany", "user.update", "user.count", "user.delete"}

\* C3: when at least one ADMIN exists, an Update or a Delete of a user
\* leaves at least one ADMIN.
C3_AdminRemains ==
    (last.op \in {"PATCH /users/id", "DELETE /users/id"}
        /\ AdminsBefore # {}) => Admins # {}

\* C4: a Delete by an ADMIN of an existing user is refused with 400 (last
\* admin) and deletes nothing exactly when the target is an ADMIN and at
\* most one ADMIN exists; otherwise it removes the target and answers 204.
C4_DeleteLastAdmin ==
    (/\ last.op = "DELETE /users/id"
     /\ last.auth # NoAuth
     /\ RoleDecided = "ADMIN"
     /\ last.id # 0
     /\ pre.users[last.id].role # "NONE") =>
        IF pre.users[last.id].role = "ADMIN" /\ Cardinality(AdminsBefore) <= 1
        THEN /\ last.status = 400
             /\ last.code = "LAST_ADMIN"
             /\ users = pre.users
        ELSE /\ last.status = 204
             /\ users = [pre.users EXCEPT ![last.id] = NoUser]

\* the only ADMIN was not deleted
C4_Witness ==
    /\ last.op = "DELETE /users/id"
    /\ last.status = 400
    /\ last.code = "LAST_ADMIN"
    /\ Cardinality(Admins) = 1
    /\ users[last.id].role = "ADMIN"

\* one of two ADMINs was deleted
C4_WitnessDeleted ==
    /\ last.op = "DELETE /users/id"
    /\ last.status = 204
    /\ pre.users[last.id].role = "ADMIN"
    /\ users[last.id] = NoUser

\* C8: List, Update and Delete of users run only for an effective role of
\* ADMIN: without a principal the answer is 401, with another effective role
\* 403, and in both cases no user findMany, update, count or delete is
\* issued and no user changes.
C8_UserManagementAdminOnly ==
    last.op \in UserOps =>
        /\ last.auth = NoAuth =>
            /\ last.status = 401
            /\ last.calls \cap UserWork = {}
            /\ users = pre.users
        /\ (last.auth # NoAuth /\ RoleDecided # "ADMIN") =>
            /\ last.status = 403
            /\ last.calls \cap UserWork = {}
            /\ users = pre.users
        /\ last.status \notin {401, 403} =>
            last.auth # NoAuth /\ RoleDecided = "ADMIN"

\* a session that still says ADMIN was refused on the stored role USER
C8_Witness ==
    /\ last.op \in UserOps
    /\ last.status = 403
    /\ last.auth.role = "ADMIN"
    /\ RoleDecided = "USER"
    /\ last.calls = {"user.findUnique"}

\* a user PATCH of `last` that withRole let through, on a well-formed id
AdminUserPatch ==
    /\ last.op = "PATCH /users/id"
    /\ last.auth # NoAuth
    /\ RoleDecided = "ADMIN"
    /\ last.id # 0

RefusedUserPatch ==
    /\ last.status = 400
    /\ "user.update" \notin last.calls
    /\ users = pre.users

\* the answer of a user PATCH whose supplied name is stored as `name`
UserPatchOutcome(name) ==
    IF last.body.role.k # "absent"
            /\ last.body.role \notin {Text("USER"), Text("ADMIN")}
    THEN RefusedUserPatch /\ last.code = "INVALID_ROLE"
    ELSE IF last.body.name.k # "string" /\ last.body.role.k = "absent"
    THEN RefusedUserPatch /\ last.code = "NO_FIELDS"
    ELSE IF pre.users[last.id].role = "NONE"
    THEN last.status = 404 /\ users = pre.users
    ELSE /\ last.status = 200
         /\ users = [pre.users EXCEPT
                ![last.id] =
                    [role |-> IF last.body.role.k = "absent" THEN @.role
                              ELSE last.body.role.s[1],
                     name |-> IF last.body.name.k = "string" THEN name
                              ELSE @.name]]

\* C16 as stated: a user Update by an ADMIN is refused (400, no update) for
\* a role other than 'USER'/'ADMIN' or when neither a string name nor a role
\* is supplied, answers 404 for a missing target, and otherwise stores
\* exactly the supplied name and/or role in the target and nothing else.
C16_UserUpdateStoresSupplied ==
    AdminUserPatch => UserPatchOutcome(last.body.name)

\* C16, amended: the same, the supplied name being stored with the white
\* space around it removed.
C16_UserUpdateStoresTrimmed ==
    AdminUserPatch => UserPatchOutcome(Str(Trim(last.body.name.s)))

\* a name supplied with spaces around it was stored without them
C16_Witness ==
    /\ AdminUserPatch
    /\ last.status = 200
    /\ last.body.name = Str(<<" ", "bob", " ">>)
    /\ users[last.id].name = Text("bob")
    /\ users[last.id].role = pre.users[last.id].role

(***************************************************************************)
(* Claims about the payloads of Create and Update (specification           *)
(* SpecFields).                                                            *)
(***************************************************************************)
\* the request of `last` reached the validation of its body
Validated ==
    \/ last.op = "POST /movements" /\ last.status \in {201, 400}
    \/ /\ last.op = "PATCH /movements/id"
       /\ last.status \in {200, 400}
       /\ last.code # "INVALID_ID"

RefusedPayload ==
    /\ last.status = 400
    /\ last.code = "VALIDATION"
    /\ last.calls \cap MovementWrites = {}
    /\ movements = pre.movements

Stored == {m \in MovementIds : movements[m].present}

\* C12: a Create or Update whose concept is empty once trimmed, longer than
\* 200 characters or holds '<' or '>' is refused with a validation error,
\* and every stored concept is trimmed, non-empty, of at most 200 characters
\* and free of '<' and '>'.
C12_ConceptRule ==
    /\ (/\ Validated
        /\ last.body.concept.k = "string"
        /\ \/ Trim(last.body.concept.s) = <<>>
           \/ Len(last.body.concept.s) > MaxConceptLength
           \/ HasAngle(last.body.concept.s)) => RefusedPayload
    /\ \A m \in Stored :
          /\ movements[m].concept = Trim(movements[m].concept)
          /\ movements[m].concept # <<>>
          /\ Len(movements[m].concept) <= MaxConceptLength
          /\ ~HasAngle(movements[m].concept)

C13_WitnessUpdate ==
    /\ last.op = "PATCH /movements/id"
    /\ last.body.amount = Units(0)
    /\ last.id # 0
    /\ pre.movements[last.id].present
    /\ RefusedPayload

\* C14: an authorized PATCH of an existing movement whose body has none of
\* concept, amount, date, type is refused with a validation error and
\* issues no update.
C14_EmptyPatchRefused ==
    (/\ last.op = "PATCH /movements/id"
     /\ Validated
     /\ \A f \in {"concept", "amount", "date", "type"} :
            last.body[f].k = "absent") => RefusedPayload

\* a PATCH carrying only an unrecognised key was refused
C14_Witness ==
    /\ last.op = "PATCH /movements/id"
    /\ last.body.userId.k = "number"
    /\ last.body.concept.k = "absent"
    /\ last.id # 0
    /\ pre.movements[last.id].present
    /\ RefusedPayload

\* C15: Update accepts a value for a field exactly when Create accepts it:
\* a body Create stores would pass the Update schema and one it refuses
\* would not, and a body with all four fields that Update stores would pass
\* the Create schema and one it refuses would not.
C15_SameRules ==
    /\ (last.op = "POST /movements" /\ Validated) =>
            (last.status = 201 <=> updateMovementSchema(last.body))
    /\ (/\ last.op = "PATCH /movements/id"
        /\ Validated
        /\ \A f \in {"concept", "amount", "date", "type"} :
                last.body[f].k # "absent") =>
            (last.status = 200 <=> createMovementSchema(last.body))


(***************************************************************************)
(* Claims about the CSV exporter (specification SpecCsv).  The output is   *)
(* read back as a CSV reader does: a newline or a comma separates only     *)
(* outside double quotes.                                                  *)
(***************************************************************************)
FormulaStart == {"=", "+", "-", "@", "|", "%"}

QuotesBefore(text, i) == Cardinality({j \in 1..(i - 1) : text[j] = Quote})

Breaks(text, mark) ==
    {i \in 1..Len(text) : text[i] = mark /\ QuotesBefore(text, i) % 2 = 0}

Pieces(text, mark) ==
    LET breaks == Breaks(text, mark)
        count == Cardinality(breaks)
        at(k) == CHOOSE i \in breaks : Cardinality({j \in breaks : j < i}) = k - 1
        from(k) == IF k = 1 THEN 1 ELSE at(k - 1) + 1
        to(k) == IF k = count + 1 THEN Len(text) ELSE at(k) - 1
    IN  [k \in 1..(count + 1) |-> SubSeq(text, from(k), to(k))]

CsvLines(text) == Pieces(text, NewLine)
CsvCells(line) == Pieces(line, Comma)

Enclosed(cell) ==
    /\ Len(cell) >= 2
    /\ cell[1] = Quote
    /\ cell[Len(cell)] = Quote

\* the text between the enclosing double quotes of a cell
Content(cell) == SubSeq(cell, 2, Len(cell) - 1)

RECURSIVE Doubled(_)
Doubled(text) ==
    IF text = <<>> THEN <<>>
    ELSE LET n == Len(text)
         IN  Doubled(SubSeq(text, 1, n - 1)) \o
             (IF text[n] = Quote THEN <<Quote, Quote>> ELSE <<text[n]>>)

StartsFormula(text) == text # <<>> /\ text[1] \in FormulaStart

Guarded(text) == IF StartsFormula(text) THEN <<"'">> \o text ELSE text

Exported == last.op = "generateMovementsCsv"

DataLines == SubSeq(CsvLines(last.data), 2, Len(CsvLines(last.data)))

\* C17: in every data row of the exporter's output, no cell's content (the
\* text between its enclosing double quotes) begins with one of the
\* characters = + - @ | %
C17_InjectionSafe ==
    Exported =>
        \A r \in 1..Len(DataLines) :
            \A c \in 1..Len(CsvCells(DataLines[r])) :
                ~StartsFormula(Content(CsvCells(DataLines[r])[c]))

C19_WitnessEmpty ==
    /\ Exported
    /\ last.rows = <<>>
    /\ last.data = csvHeader


(***************************************************************************)
(* Claims about the reports (specification SpecReports).                   *)
(***************************************************************************)
Reported ==
    /\ last.op \in {"GET /reports", "GET /reports (pages)"}
    /\ last.status = 200

Present == {m \in MovementIds : pre.movements[m].present}

\* the exact sum, in thousandths, of the amounts of the movements in `ids`
RECURSIVE Thousandths(_)
Thousandths(ids) ==
    IF ids = {} THEN 0
    ELSE LET m == CHOOSE x \in ids : TRUE
         IN  pre.movements[m].amount.n * 1000 + pre.movements[m].amount.f
             + Thousandths(ids \ {m})

\* the number that is the sum of the amounts of the movements of `type`
SumOfAmounts(type) ==
    LET sum == Thousandths({m \in Present : pre.movements[m].type = type})
    IN  Number([n |-> sum \div 1000, f |-> sum % 1000])

\* entries[1].field + ... + entries[n].field, added in the order of the list
RECURSIVE SumOfMonths(_, _)
SumOfMonths(entries, field) ==
    IF entries = <<>> THEN PlusZero
    ELSE Plus(SumOfMonths(SubSeq(entries, 1, Len(entries) - 1), field),
              entries[Len(entries)][field])

ReportBalance ==
    last.report.balance = Minus(last.report.totalIncome, last.report.totalExpense)

ReportTotals ==
    /\ last.report.totalIncome = SumOfAmounts("INCOME")
    /\ last.report.totalExpense = SumOfAmounts("EXPENSE")

ReportMonthlySums ==
    /\ SumOfMonths(last.report.monthly, "income") = last.report.totalIncome
    /\ SumOfMonths(last.report.monthly, "expense") = last.report.totalExpense

ReportBuckets ==
    /\ \A m \in Present :
          Cardinality({i \in 1..Len(last.report.monthly) :
                          last.report.monthly[i].month =
                              monthKey(pre.movements[m].date, last.zone)}) = 1
    /\ \A i \in 1..Len(last.report.monthly) :
          \E m \in Present :
              last.report.monthly[i].month =
                  monthKey(pre.movements[m].date, last.zone)

ReportAscending ==
    \A i, j \in 1..Len(last.report.monthly) :
        i < j => localeCompareBefore(last.report.monthly[i].month,
                                     last.report.monthly[j].month)

\* the parts of the report that do not depend on how a total is rounded
ReportShape ==
    Reported => ReportBalance /\ ReportBuckets /\ ReportAscending

\* C20: balance = totalIncome - totalExpense, each total is the sum of the
\* amounts of the movements of its type, the monthly incomes and expenses
\* sum to the totals, every movement falls in exactly one month bucket, that
\* of its date, and the month keys are unique and strictly ascending
C20_ReportTotals ==
    Reported =>
        /\ ReportBalance
        /\ ReportTotals
        /\ ReportMonthlySums
        /\ ReportBuckets
        /\ ReportAscending


(***************************************************************************)
(* Claims about the client components (specification SpecScreens).         *)
(***************************************************************************)
SubmitFinished == screen.modal.phase = "finished"

\* C27: a submit closes the modal (onOpenChange(false)) and calls onCreated
\* exactly when the response is ok, does neither on a response that is not
\* ok or a fetch that throws, and isSubmitting, true while the submit runs,
\* is false when it has finished
C27_SubmitOutcome ==
    /\ screen.modal.phase = "awaiting" => screen.modal.isSubmitting
    /\ SubmitFinished =>
          /\ screen.modal.outcome \in {"ok", "not ok", "throws"}
          /\ screen.modal.closed <=> screen.modal.outcome = "ok"
          /\ screen.modal.notified <=>
                (screen.modal.outcome = "ok" /\ screen.modal.onCreated)
          /\ ~screen.modal.isSubmitting

\* a second submit succeeded after one that did not
C27_Witness ==
    /\ SubmitFinished
    /\ screen.modal.submits = 2
    /\ screen.modal.outcome = "ok"
    /\ screen.modal.closed
    /\ screen.modal.notified
    /\ ~screen.modal.open

C27_WitnessFailed ==
    /\ SubmitFinished
    /\ screen.modal.outcome = "throws"
    /\ screen.modal.open
    /\ screen.modal.toast = "error"

GuardAllows(guard) ==
    /\ ~guard.isLoading
    /\ ~guard.error
    /\ guard.user # "NONE"
    /\ ~guard.restricted \/ guard.user \in guard.allowedRoles

\* C30: RoleGuard renders its children only when the load has finished
\* without error, a user is present and allowedRoles is absent or contains
\* the user's role; in every other state the children are not rendered
C30_GuardRenders ==
    screen.guard.revision # "none" =>
        (screen.guard.rendered = "children" <=> GuardAllows(screen.guard))

\* a guard with allowedRoles let an ADMIN through
C30_Witness ==
    /\ screen.guard.revision # "none"
    /\ screen.guard.rendered = "children"
    /\ screen.guard.restricted
    /\ screen.guard.allowedRoles = {"ADMIN"}
    /\ screen.guard.user = "ADMIN"

\* a guard with allowedRoles kept a USER out
C30_WitnessRefused ==
    /\ screen.guard.revision # "none"
    /\ screen.guard.rendered = "403 message"
    /\ screen.guard.allowedRoles = {"ADMIN"}
    /\ screen.guard.user = "USER"

(***************************************************************************)
(* Claims about requests in flight.                                        *)
(***************************************************************************)
Deleting(r, u) ==
    /\ flight[r].method = "DELETE /users/id"
    /\ flight[r].id = u

\* C21: when exactly two ADMINs exist and two concurrent user Deletes target
\* the two of them, at most one deletion succeeds and an ADMIN remains
C21_LastAdminAtomic ==
    \A r1, r2 \in Requests : \A u1, u2 \in AdminsBefore :
        (/\ r1 # r2 /\ u1 # u2
         /\ Cardinality(AdminsBefore) = 2
         /\ Deleting(r1, u1) /\ Deleting(r2, u2)) =>
            /\ ~(flight[r1].status = 204 /\ flight[r2].status = 204)
            /\ Admins # {}

\* the movement mutation of the request found the row it had looked up gone
Vanished(r) ==
    /\ flight[r].method \in ByIdOps
    /\ flight[r].at = "done"
    /\ flight[r].thrown = "missing"
    /\ flight[r].movement.present
    /\ \E other \in Requests \ {r} :
          /\ flight[other].method = "DELETE /movements/id"
          /\ flight[other].id = flight[r].id
          /\ flight[other].status = 204

C23_WitnessDeletes ==
    \E r \in Requests :
        /\ Vanished(r)
        /\ flight[r].method = "DELETE /movements/id"

ListDone(r) == flight[r].method = "GET /movements" /\ flight[r].at = "done"

\* C29: a list response returns at most `limit` movements and at most
\* `total` movements, and its page is within totalPages when it returns
\* any, also when other requests create or delete between its two queries
C29_ListConsistent ==
    \A r \in Requests :
        ListDone(r) =>
            LET pageSize == ClampedLimit(flight[r].limit)
                page == ClampedPage(flight[r].page)
                totalPages == CeilDiv(flight[r].total, pageSize)
            IN  /\ Len(flight[r].data) <= pageSize
                /\ Len(flight[r].data) <= flight[r].total
                /\ flight[r].data # <<>> => page <= totalPages

Failed(r) == flight[r].at = "done" /\ flight[r].thrown # "nothing"

\* C22: every failure of a persistence call is answered by the operation
\* itself: with NotFound when the record to update or delete is missing,
\* with 500 for any other failure, and never by an escaping exception
C22_FailuresClassified ==
    \A r \in Requests :
        Failed(r) =>
            /\ flight[r].code # "UNCAUGHT"
            /\ flight[r].thrown = "missing" => flight[r].status = 404
            /\ flight[r].thrown = "other" => flight[r].status = 500

====
